---- MODULE Spec2Model ----
(***************************************************************************)
(* Federated-learning playground (Oseltamivir/playground).                 *)
(*                                                                         *)
(* The module models                                                       *)
(*   - the vector algebra and the mean-of-deltas kernel (fl/algorithms.ts), *)
(*   - the library round loop simulateFederatedTraining (unnamed/part_000), *)
(*   - the playground's round handler oneStepFL with its clustering and    *)
(*     partition-rebuild helpers (unnamed/part_003),                        *)
(*   - k-means (unnamed/part_002), DP sanitizer and ServerAdam             *)
(*     (unnamed/part_001), and the data partitioner (fl/partition.ts).     *)
(*                                                                         *)
(* Numbers are exact rationals <<num, den>> (den > 0, lowest terms) with    *)
(* the IEEE specials NaN, +Infinity and -Infinity; Float32 rounding is not  *)
(* modelled.  A Float32Array is a sequence of numbers, Weights a sequence   *)
(* of Float32Arrays.                                                        *)
(***************************************************************************)
EXTENDS Integers, Sequences, FiniteSets, TLC

\* ------------------------------------------------------------------------
\* JavaScript numbers
\* ------------------------------------------------------------------------

\* null, and a present value x of a nullable: a sequence of length 0 or 1
NULL == <<>>

Some(x) == <<x>>

\* Op applied to v, a local (const, var) whose value is worked out once
\* however often Op reads it
Let(v, Op(_)) == Op(v)

NaN == <<0, 0>>

PosInf == <<1, 0>>

NegInf == <<-1, 0>>

Abs(i) == IF i < 0 THEN -i ELSE i

Sign(i) == IF i < 0 THEN -1 ELSE IF i = 0 THEN 0 ELSE 1

Min2(a, b) == IF a <= b THEN a ELSE b

Max2(a, b) == IF a >= b THEN a ELSE b

RECURSIVE GCD(_, _)
GCD(a, b) == IF b = 0 THEN a ELSE GCD(b, a % b)

\* the rational n/d in lowest terms, d # 0
Q(n, d) ==
  LET g == GCD(Abs(n), Abs(d))
      s == IF d < 0 THEN -1 ELSE 1
  IN  <<s * (n \div g), s * (d \div g)>>

Num(n) == <<n, 1>>

Zero == <<0, 1>>

One == <<1, 1>>

IsFinite(x) == x[2] # 0

IsNaN(x) == x = NaN

RNeg(x) == <<-x[1], x[2]>>

RAdd(x, y) ==
  IF IsNaN(x) \/ IsNaN(y) THEN NaN
  ELSE IF ~IsFinite(x) THEN (IF ~IsFinite(y) /\ y # x THEN NaN ELSE x)
  ELSE IF ~IsFinite(y) THEN y
  ELSE LET g == GCD(x[2], y[2])
           l == (x[2] \div g) * y[2]
       IN  Q(x[1] * (l \div x[2]) + y[1] * (l \div y[2]), l)

RSub(x, y) == RAdd(x, RNeg(y))

RMul(x, y) ==
  IF IsNaN(x) \/ IsNaN(y) THEN NaN
  ELSE IF ~IsFinite(x) \/ ~IsFinite(y)
       THEN (IF x[1] = 0 \/ y[1] = 0 THEN NaN
             ELSE <<Sign(x[1]) * Sign(y[1]), 0>>)
  ELSE LET g1 == GCD(Abs(x[1]), y[2])
           g2 == GCD(Abs(y[1]), x[2])
       IN  Q((x[1] \div g1) * (y[1] \div g2), (x[2] \div g2) * (y[2] \div g1))

RDiv(x, y) ==
  IF IsNaN(x) \/ IsNaN(y) THEN NaN
  ELSE IF ~IsFinite(y) THEN (IF ~IsFinite(x) THEN NaN ELSE Zero)
  ELSE IF ~IsFinite(x) THEN (IF y[1] < 0 THEN RNeg(x) ELSE x)
  ELSE IF y[1] = 0 THEN (IF x[1] = 0 THEN NaN ELSE <<Sign(x[1]), 0>>)
  ELSE RMul(x, Q(y[2], y[1]))

\* x < y as JavaScript compares numbers: false when either is NaN
RLt(x, y) ==
  IF IsNaN(x) \/ IsNaN(y) THEN FALSE
  ELSE IF ~IsFinite(x) \/ ~IsFinite(y)
       THEN (IF x = y THEN FALSE
             ELSE IF x = NegInf \/ y = PosInf THEN TRUE ELSE FALSE)
  ELSE LET d == RSub(x, y) IN d[1] < 0

RGt(x, y) == RLt(y, x)

RLe(x, y) == ~IsNaN(x) /\ ~IsNaN(y) /\ ~RLt(y, x)

RMin(x, y) == IF IsNaN(x) \/ IsNaN(y) THEN NaN ELSE IF RLt(y, x) THEN y ELSE x

RMax(x, y) == IF IsNaN(x) \/ IsNaN(y) THEN NaN ELSE IF RLt(x, y) THEN y ELSE x

\* Math.round of the rational n/d (d > 0): the nearest integer, halves up
RoundRat(x) == (2 * x[1] + x[2]) \div (2 * x[2])

\* ------------------------------------------------------------------------
\* Vector / weight algebra (fl/algorithms.ts)
\* ------------------------------------------------------------------------

\* new Float32Array(n): n zeros
ZeroArray(n) == [i \in 1..n |-> Zero]

diffWeights(newW, oldW) ==
  [li \in 1..Len(newW) |->
     [i \in 1..Len(newW[li]) |-> RSub(newW[li][i], oldW[li][i])]]

addScaled(a, b, s) ==
  [li \in 1..Len(a) |->
     [i \in 1..Len(a[li]) |-> RAdd(a[li][i], RMul(s, b[li][i]))]]

zerosLike(w) == [li \in 1..Len(w) |-> ZeroArray(Len(w[li]))]

\* a plausible slip: the participation weight is used in unweighted mode too
AggWeightAlways(entry, weighted) == entry.weight

\* const w = weighted ? weight : 1
AggWeight(entry, weighted) == IF weighted THEN entry.weight ELSE One

\* the accumulation loop of aggregateDeltas over deltas[k..]: base and totalW
RECURSIVE AggAccumulate(_, _, _, _, _)
AggAccumulate(deltas, weighted, k, base, totalW) ==
  IF k > Len(deltas) THEN [base |-> base, totalW |-> totalW]
  ELSE LET w == AggWeight(deltas[k], weighted)
           d == deltas[k].delta
           nb == [li \in 1..Len(base) |->
                    [i \in 1..Len(base[li]) |->
                       RAdd(base[li][i], RMul(w, d[li][i]))]]
       IN  AggAccumulate(deltas, weighted, k + 1, nb, RAdd(totalW, w))

\* aggregateDeltas on a non-empty batch; on an empty one deltas[0].delta
\* raises a TypeError, which the callers model
aggregateDeltas(deltas, weighted) ==
  Let(AggAccumulate(deltas, weighted, 1, zerosLike(deltas[1].delta), Zero),
      LAMBDA acc :
        [li \in 1..Len(acc.base) |->
           [i \in 1..Len(acc.base[li]) |-> RDiv(acc.base[li][i], acc.totalW)]])

\* ------------------------------------------------------------------------
\* Differential-privacy sanitizer and server optimizer (unnamed/part_001)
\* ------------------------------------------------------------------------

\* floor of the square root of a natural number n < 2^30, by bisection
\* over lo..hi (lo * lo <= n < (hi + 1) * (hi + 1))
RECURSIVE ISqrtFrom(_, _, _)
ISqrtFrom(n, lo, hi) ==
  IF lo >= hi THEN lo
  ELSE LET mid == (lo + hi + 1) \div 2
       IN  IF mid * mid <= n THEN ISqrtFrom(n, mid, hi)
           ELSE ISqrtFrom(n, lo, mid - 1)

ISqrt(n) == ISqrtFrom(n, 0, Min2(n, 32767))

\* Math.sqrt: exact on the squares of rationals; elsewhere rounded down to a
\* multiple of 1/(SqrtDigits * den)
SqrtDigits == 10

RSqrt(x) ==
  IF IsNaN(x) THEN NaN
  ELSE IF ~IsFinite(x) THEN (IF x = PosInf THEN PosInf ELSE NaN)
  ELSE IF x[1] < 0 THEN NaN
  ELSE LET rn == ISqrt(x[1])
           rd == ISqrt(x[2])
       IN  IF rn * rn = x[1] /\ rd * rd = x[2] THEN Q(rn, rd)
           ELSE Q(ISqrt(x[1] * x[2] * SqrtDigits * SqrtDigits), x[2] * SqrtDigits)

\* the sum of the squares of the elements of a[k..]
RECURSIVE SumSqFrom(_, _)
SumSqFrom(a, k) ==
  IF k > Len(a) THEN Zero ELSE RAdd(RMul(a[k], a[k]), SumSqFrom(a, k + 1))

RECURSIVE SumSqGroups(_, _)
SumSqGroups(w, li) ==
  IF li > Len(w) THEN Zero ELSE RAdd(SumSqFrom(w[li], 1), SumSqGroups(w, li + 1))

\* a and b are truthy numbers: a || b
OrElse(a, b) == IF IsNaN(a) \/ a = Zero THEN b ELSE a

\* the 1e-12 that stands in for a zero norm
Tiny == <<1, 1000000>>

\* a plausible slip: the scale is not capped at 1
ClipScaleUncapped(clip, norm) == RDiv(clip, norm)

\* scale = Math.min(1, clip / norm)
ClipScale(clip, norm) == RMin(One, RDiv(clip, norm))

clipUpdate(delta, clip) ==
  IF ~IsFinite(clip) \/ RLe(clip, Zero) THEN delta
  ELSE Let(ClipScale(clip, OrElse(RSqrt(SumSqGroups(delta, 1)), Tiny)),
           LAMBDA scale :
             IF scale = One THEN delta
             ELSE [li \in 1..Len(delta) |->
                     [i \in 1..Len(delta[li]) |-> RMul(delta[li][i], scale)]])

\* addGaussianNoise; n[li][i] is the Box-Muller draw for element i of group li
addGaussianNoise(delta, std, n) ==
  IF ~IsFinite(std) \/ RLe(std, Zero) THEN delta
  ELSE [li \in 1..Len(delta) |->
          [i \in 1..Len(delta[li]) |-> RAdd(delta[li][i], RMul(std, n[li][i]))]]

RECURSIVE RPow(_, _)
RPow(b, t) == IF t = 0 THEN One ELSE RMul(b, RPow(b, t - 1))

\* new ServerAdam(lr, beta1, beta2, eps)
NewServerAdam(lr, beta1, beta2, eps) ==
  [lr |-> lr, beta1 |-> beta1, beta2 |-> beta2, eps |-> eps,
   m |-> NULL, v |-> NULL, t |-> 0]

\* ServerAdam.step: the optimizer after the step and the weights it returns
AdamStep(adam, weights, grad) ==
  LET t == adam.t + 1
      m0 == IF adam.m = NULL THEN zerosLike(grad) ELSE adam.m[1]
      v0 == IF adam.v = NULL THEN zerosLike(grad) ELSE adam.v[1]
  IN  Let([li \in 1..Len(weights) |-> [i \in 1..Len(weights[li]) |->
             RAdd(RMul(adam.beta1, m0[li][i]),
                  RMul(RSub(One, adam.beta1), grad[li][i]))]],
      LAMBDA m1 :
      Let([li \in 1..Len(weights) |-> [i \in 1..Len(weights[li]) |->
             RAdd(RMul(adam.beta2, v0[li][i]),
                  RMul(RSub(One, adam.beta2), RMul(grad[li][i], grad[li][i])))]],
      LAMBDA v1 :
        [adam |-> [adam EXCEPT !.t = t, !.m = Some(m1), !.v = Some(v1)],
         out |-> [li \in 1..Len(weights) |-> [i \in 1..Len(weights[li]) |->
                    LET mhat == RDiv(m1[li][i], RSub(One, RPow(adam.beta1, t)))
                        vhat == RDiv(v1[li][i], RSub(One, RPow(adam.beta2, t)))
                    IN  RSub(weights[li][i],
                             RMul(adam.lr,
                                  RDiv(mhat, RAdd(RSqrt(vhat), adam.eps))))]]]))

\* ------------------------------------------------------------------------
\* Bounds and input domains
\* ------------------------------------------------------------------------

\* the largest client population
MaxClients == 2

\* the largest number of rounds of one run
MaxRounds == 2

\* the largest localEpochs
MaxEpochs == 2

\* values Math.random() takes in the model: 0 and 3/4, both in [0, 1)
RandomDraws == {Zero, Q(3, 4)}

\* values a Box-Muller draw takes in the model
NoiseDraws == {Num(-1), Num(1)}

\* the arrangements Array.prototype.sort can leave n clients in when its
\* comparator answers at random: every order of the indices 0..n-1
Shuffles(n) ==
  {p \in [1..n -> 0..(n - 1)] : \A i, j \in 1..n : i # j => p[i] # p[j]}

\* the configuration every profile starts from (FLConfig, fl/types.ts)
BaseCfg ==
  [algo |-> "FedAvg", numClients |-> 2, clientFrac |-> One, localEpochs |-> 1,
   clientLR |-> Q(1, 2), weightedAggregation |-> FALSE, clientDropout |-> Q(1, 2),
   mu |-> One, serverLR |-> One, beta1 |-> Q(1, 2), beta2 |-> Zero, eps |-> One,
   dpClipNorm |-> Zero, dpNoiseMult |-> Zero, dpClientLevel |-> FALSE,
   clusteringEnabled |-> FALSE, numClusters |-> 1, reclusterEvery |-> 1,
   warmupRounds |-> 0, similarityMetric |-> "l2"]

\* ------------------------------------------------------------------------
\* Arrays
\* ------------------------------------------------------------------------

\* a JavaScript array is a function on 0..(length - 1)
ALen(a) == Cardinality(DOMAIN a)

NewArray(n, x) == [i \in 0..(n - 1) |-> x]

\* the array with the elements of the sequence s
ArrayOf(s) == [i \in 0..(Len(s) - 1) |-> s[i + 1]]

RECURSIVE SumSeq(_, _)
SumSeq(s, i) == IF i > Len(s) THEN 0 ELSE s[i] + SumSeq(s, i + 1)

\* ------------------------------------------------------------------------
\* The data partitioner (fl/partition.ts)
\* ------------------------------------------------------------------------

\* the example indices i with y[i] = c, in increasing order
RECURSIVE IndicesOfClass(_, _, _)
IndicesOfClass(y, c, i) ==
  IF i > Len(y) THEN <<>>
  ELSE (IF y[i] = c THEN <<i - 1>> ELSE <<>>) \o IndicesOfClass(y, c, i + 1)

\* shuffle(arr): the generator's draws leave arr in the order perm
Permute(arr, perm) == [i \in 1..Len(arr) |-> arr[perm[i] + 1]]

\* byClass after the per-class shuffles
ByClass(y, numClasses, perms) ==
  [c \in 0..(numClasses - 1) |->
     LET idx == IndicesOfClass(y, c, 1) IN Permute(idx, perms[c])]

\* while (tries < numClasses && classPtrs[rot % numClasses] >= byClass[..].length)
RECURSIVE SkipExhausted(_, _, _, _)
SkipExhausted(rot, tries, classPtrs, byClass) ==
  LET numClasses == ALen(byClass)
  IN  IF tries < numClasses
         /\ classPtrs[rot % numClasses] >= Len(byClass[rot % numClasses])
      THEN SkipExhausted(rot + 1, tries + 1, classPtrs, byClass)
      ELSE rot

\* the reserve loop when total >= numClients, from client cId on
RECURSIVE ReserveEach(_, _, _, _, _)
ReserveEach(cId, rot, classPtrs, initialIdxs, byClass) ==
  IF cId >= ALen(initialIdxs)
  THEN [classPtrs |-> classPtrs, initialIdxs |-> initialIdxs]
  ELSE LET rot1 == SkipExhausted(rot, 0, classPtrs, byClass)
           cl == rot1 % ALen(byClass)
       IN  IF classPtrs[cl] < Len(byClass[cl])
           THEN ReserveEach(cId + 1, rot1 + 1, [classPtrs EXCEPT ![cl] = @ + 1],
                  [initialIdxs EXCEPT ![cId] = Append(@, byClass[cl][classPtrs[cl] + 1])],
                  byClass)
           ELSE ReserveEach(cId + 1, rot1 + 1, classPtrs, initialIdxs, byClass)

\* the first class (rot + t) % numClasses, t >= t0, that still has an example;
\* -1 when there is none
RECURSIVE FirstAvailable(_, _, _, _)
FirstAvailable(rot, t0, classPtrs, byClass) ==
  LET numClasses == ALen(byClass)
      cl == (rot + t0) % numClasses
  IN  IF t0 >= numClasses THEN -1
      ELSE IF classPtrs[cl] < Len(byClass[cl]) THEN cl
      ELSE FirstAvailable(rot, t0 + 1, classPtrs, byClass)

\* the reserve loop when total < numClients, from client cId on
RECURSIVE ReserveScarce(_, _, _, _, _, _)
ReserveScarce(cId, left, rot, classPtrs, initialIdxs, byClass) ==
  IF cId >= ALen(initialIdxs) \/ left <= 0
  THEN [classPtrs |-> classPtrs, initialIdxs |-> initialIdxs]
  ELSE LET cl == FirstAvailable(rot, 0, classPtrs, byClass)
       IN  IF cl >= 0
           THEN ReserveScarce(cId + 1, left - 1, rot + 1,
                  [classPtrs EXCEPT ![cl] = @ + 1],
                  [initialIdxs EXCEPT ![cId] = Append(@, byClass[cl][classPtrs[cl] + 1])],
                  byClass)
           ELSE ReserveScarce(cId + 1, left, rot + 1, classPtrs, initialIdxs, byClass)

\* a plausible slip: nothing is reserved
ReserveNothing(total, numClients, rot, byClass) ==
  [classPtrs |-> NewArray(ALen(byClass), 0), initialIdxs |-> NewArray(numClients, <<>>)]

\* step (1): initialIdxs and classPtrs after the reserve
Reserve(total, numClients, rot, byClass) ==
  LET ptr0 == NewArray(ALen(byClass), 0)
      idx0 == NewArray(numClients, <<>>)
  IN  IF total >= numClients
      THEN ReserveEach(0, rot, ptr0, idx0, byClass)
      ELSE ReserveScarce(0, total, rot, ptr0, idx0, byClass)

\* Math.floor and Math.ceil of a finite rational
FloorRat(x) == x[1] \div x[2]

CeilRat(x) == -((-x[1]) \div x[2])

\* q - Math.floor(q)
Frac(x) == RSub(x, Num(FloorRat(x)))

\* the equal-sizes branch (balance >= 0.999): order is the shuffled client order
BalancedSizes(reserved, remainingTotal, order) ==
  LET numClients == ALen(reserved)
      base == remainingTotal \div numClients
      rem == remainingTotal - base * numClients
  IN  [c \in 0..(numClients - 1) |->
         LET i == CHOOSE j \in 1..numClients : order[j] = c
         IN  reserved[c] + base + (IF i - 1 < rem THEN 1 ELSE 0)]

\* idx.sort by fractional remainder, largest first (stable): insert idx[t] into
\* the sorted prefix
RECURSIVE InsertByFrac(_, _, _)
InsertByFrac(sorted, i, quotas) ==
  IF sorted = <<>> THEN <<i>>
  ELSE IF RLt(Frac(quotas[Head(sorted)]), Frac(quotas[i]))
       THEN <<i>> \o sorted
       ELSE <<Head(sorted)>> \o InsertByFrac(Tail(sorted), i, quotas)

RECURSIVE SortByFrac(_, _, _)
SortByFrac(idx, t, quotas) ==
  IF t = 0 THEN <<>>
  ELSE InsertByFrac(SortByFrac(idx, t - 1, quotas), idx[t], quotas)

\* the loop of giveRemainders over idx[t..]
RECURSIVE GiveLoop(_, _, _, _, _)
GiveLoop(idx, t, add, rem, currCap) ==
  IF t > Len(idx) \/ rem <= 0 THEN [add |-> add, rem |-> rem]
  ELSE IF add[idx[t]] < currCap
       THEN GiveLoop(idx, t + 1, [add EXCEPT ![idx[t]] = @ + 1], rem - 1, currCap)
       ELSE GiveLoop(idx, t + 1, add, rem, currCap)

\* while (rem > 0) { giveRemainders(capAdd, ...); if (rem === before) capAdd++ }
RECURSIVE Apportion(_, _, _, _, _)
Apportion(idx, add, rem, capAdd, quotas) ==
  IF rem <= 0 THEN add
  ELSE LET sorted == SortByFrac(idx, Len(idx), quotas)
           g == GiveLoop(sorted, 1, add, rem, capAdd)
       IN  Apportion(sorted, g.add, g.rem,
                     IF g.rem = rem THEN capAdd + 1 ELSE capAdd, quotas)

\* the Dirichlet branch (balance < 0.999): wts are the Dirichlet weights over
\* the clients, order the pre-shuffled client order
SkewedSizes(reserved, remainingTotal, balance, wts, order) ==
  LET numClients == ALen(reserved)
      mu == Q(remainingTotal, numClients)
      cap0 == Max2(1, CeilRat(RMul(mu, RAdd(One, RMul(Num(3), RSub(One, balance))))))
      capAdd == IF cap0 * numClients < remainingTotal
                THEN CeilRat(Q(remainingTotal, numClients)) ELSE cap0
      quotas == [c \in 0..(numClients - 1) |-> RMul(wts[c + 1], Num(remainingTotal))]
      add0 == [c \in 0..(numClients - 1) |-> Min2(FloorRat(quotas[c]), capAdd)]
      used == SumSeq([i \in 1..numClients |-> add0[i - 1]], 1)
      add == Apportion(order, add0, remainingTotal - used, capAdd, quotas)
  IN  [c \in 0..(numClients - 1) |-> reserved[c] + add[c]]

\* a plausible slip: nothing is handed out beyond the reserve
ClientSizesReserved(total, reserved, balance, wts, order) == reserved

\* step (2): clientSizes
ClientSizes(total, reserved, balance, wts, order) ==
  LET numClients == ALen(reserved)
      initialAssigned == SumSeq([i \in 1..numClients |-> reserved[i - 1]], 1)
      remainingTotal == Max2(0, total - initialAssigned)
  IN  IF remainingTotal = 0 THEN reserved
      ELSE IF RLe(Q(999, 1000), balance)
           THEN BalancedSizes(reserved, remainingTotal, order)
           ELSE SkewedSizes(reserved, remainingTotal, balance, wts, order)

\* the classes that still have an example, in increasing order
RECURSIVE AvailableFrom(_, _, _)
AvailableFrom(c, classPtrs, byClass) ==
  IF c >= ALen(byClass) THEN <<>>
  ELSE (IF classPtrs[c] < Len(byClass[c]) THEN <<c>> ELSE <<>>)
       \o AvailableFrom(c + 1, classPtrs, byClass)

\* the fill loop of one client: picks[j] decides the outcome of the j-th
\* pickClass call among the classes that are available
RECURSIVE FillClient(_, _, _, _, _, _)
FillClient(idxs, need, j, classPtrs, byClass, picks) ==
  LET avail == AvailableFrom(0, classPtrs, byClass)
  IN  IF need <= 0 \/ avail = <<>> THEN [idxs |-> idxs, classPtrs |-> classPtrs, j |-> j]
      ELSE LET cl == avail[(picks[((j - 1) % Len(picks)) + 1] % Len(avail)) + 1]
           IN  FillClient(Append(idxs, byClass[cl][classPtrs[cl] + 1]), need - 1, j + 1,
                          [classPtrs EXCEPT ![cl] = @ + 1], byClass, picks)

\* idxs cut into batches of batchSize, from position b on
RECURSIVE Batches(_, _, _)
Batches(idxs, b, batchSize) ==
  IF b > Len(idxs) THEN <<>>
  ELSE <<SubSeq(idxs, b, Min2(Len(idxs), b + batchSize - 1))>>
       \o Batches(idxs, b + batchSize, batchSize)

\* step (3): the client records, from client cId on
RECURSIVE BuildClients(_, _, _, _, _, _, _, _)
BuildClients(cId, clientSizes, initialIdxs, classPtrs, j, byClass, batchSize, picks) ==
  IF cId >= ALen(clientSizes) THEN <<>>
  ELSE LET start == initialIdxs[cId]
           f == FillClient(start, Max2(0, clientSizes[cId] - Len(start)), j,
                           classPtrs, byClass, picks)
       IN  <<[id |-> cId, batches |-> Batches(f.idxs, 1, batchSize),
              size |-> Len(f.idxs), idxs |-> f.idxs]>>
           \o BuildClients(cId + 1, clientSizes, initialIdxs, f.classPtrs, f.j,
                           byClass, batchSize, picks)

\* makeClientsFromXY(X, y, numClasses, numClients, batchSize, alpha, balance, seed);
\* gen holds what the random generator decides: the per-class shuffles (perms),
\* the starting rotation (rot), the shuffled client order (order), the Dirichlet
\* weights over clients (wts) and the pickClass outcomes (picks)
makeClientsFromXY(y, numClasses, numClients, batchSize, balance, gen) ==
  LET byClass == ByClass(y, numClasses, gen.perms)
      total == Len(y)
      res == Reserve(total, numClients, gen.rot, byClass)
      reserved == [c \in 0..(numClients - 1) |-> Len(res.initialIdxs[c])]
      clientSizes == ClientSizes(total, reserved, balance, gen.wts, gen.order)
  IN  ArrayOf(BuildClients(0, clientSizes, res.initialIdxs, res.classPtrs, 1,
                           byClass, batchSize, gen.picks))

\* ------------------------------------------------------------------------
\* Local training: the external network, seen through the orchestrators
\* ------------------------------------------------------------------------

\* the per-example derivative nn.backProp accumulates for a client's example
\* at weights w: the gradient of the quadratic loss around the client's optimum
ExampleDer(w, client) == [i \in 1..Len(w) |-> RSub(w[i], Num(client.id + 1))]

\* nn.updateWeights: one step along the mean of the accumulated derivatives
UpdateWeights(w, acc, cnt, lr) ==
  IF cnt = 0 THEN w
  ELSE [i \in 1..Len(w) |-> RSub(w[i], RMul(lr, RDiv(acc[i], Num(cnt))))]

\* one mini-batch of n examples of oneStepFL's local training: back-propagate
\* every example, add the FedProx and SCAFFOLD terms, update the weights.
\* c and ci are the SCAFFOLD control variates (c is NULL when not in use).
TrainBatch(w, w0, n, client, cf, c, ci) ==
  LET der == ExampleDer(w, client)
      acc0 == [i \in 1..Len(w) |-> RMul(Num(n), der[i])]
      prox == cf.algo = "FedProx" /\ RGt(cf.mu, Zero)
      acc1 == IF prox
              THEN [i \in 1..Len(w) |-> RAdd(acc0[i], RMul(cf.mu, RSub(w[i], w0[i])))]
              ELSE acc0
      scaf == cf.algo = "SCAFFOLD" /\ c # NULL
      acc2 == IF scaf
              THEN [i \in 1..Len(w) |-> RAdd(acc1[i], RSub(c[1][i], ci[i]))]
              ELSE acc1
      cnt == n + (IF prox THEN 1 ELSE 0) + (IF scaf THEN 1 ELSE 0)
  IN  UpdateWeights(w, acc2, cnt, cf.clientLR)

\* one local epoch: the batches of the client in order
RECURSIVE TrainEpoch(_, _, _, _, _, _, _)
TrainEpoch(w, w0, b, client, cf, c, ci) ==
  IF b > Len(client.batches) THEN w
  ELSE TrainEpoch(TrainBatch(w, w0, Len(client.batches[b]), client, cf, c, ci),
                  w0, b + 1, client, cf, c, ci)

\* FLCallbacks.localTrainOneEpoch(w0, client, cfg): one epoch from w0
localTrainOneEpoch(w0, client, cf) ==
  <<TrainEpoch(w0[1], w0[1], 1, client, cf, NULL, NULL)>>

\* ------------------------------------------------------------------------
\* State
\* ------------------------------------------------------------------------

VARIABLES
  program,      \* what runs: "train" (simulateFederatedTraining was called),
                \* "playground" (the page), or the function under call
  cfg,          \* the FLConfig in use (train: the argument; playground: the
                \* last readFLConfig())
  round,        \* what the last round handler did (observation only)
  call,         \* the arguments of the function under call
  result,       \* what the call returned
  \* ---- simulateFederatedTraining (unnamed/part_000)
  simPc,        \* "scheduled": a requestAnimationFrame(doRound) is pending;
                \* "done": onDone ran; "raised": doRound threw; "idle": not in use
  clients,      \* the clients argument
  numRounds,    \* the numRounds argument
  w,            \* the global weights
  r,            \* the round counter
  adam,         \* the ServerAdam of the run, or NULL
  evalCalls,    \* number of cb.evalGlobal() calls so far
  doneCalls,    \* number of onDone() calls so far
  \* ---- the playground page (unnamed/part_003)
  pg            \* the page's globals, a record: network, iter, flClients,
                \* flLastSig, flServerAdam, flLastAlgo, flScaffoldC,
                \* flScaffoldCi, flClusterWeights, flClientCluster,
                \* flLastClientDelta, flClusterCount, flRoundsSinceCluster

simVars == <<simPc, clients, numRounds, w, r, adam, evalCalls, doneCalls>>

fnVars == <<call, result>>

vars == <<program, cfg, round, fnVars, simVars, pg>>

\* no call made
NoCall == [fn |-> "none"]

\* no call returned
NoResult == [done |-> FALSE]

\* simulateFederatedTraining not in use
SimIdle ==
  /\ simPc = "idle"
  /\ clients = <<>>
  /\ numRounds = 0
  /\ w = <<>>
  /\ r = 0
  /\ adam = NULL
  /\ evalCalls = 0
  /\ doneCalls = 0

\* the page not loaded
PgIdle == pg = [loaded |-> FALSE]

\* before the first round
NoRound == [path |-> "none", raised |-> FALSE]

\* ------------------------------------------------------------------------
\* Sampling and sanitizing, as every round handler does them
\* ------------------------------------------------------------------------

\* k = Math.max(1, Math.round(clientFrac * population))
SampleSize(clientFrac, population) ==
  Max2(1, RoundRat(RMul(clientFrac, Num(population))))

\* the loop "for i < k && i < shuffled.length: if (Math.random() > dropout)
\* roundClients.push(shuffled[i])", from position i on
RECURSIVE Survivors(_, _, _, _, _)
Survivors(shuffled, draws, k, dropout, i) ==
  IF i > k \/ i > Len(shuffled) THEN <<>>
  ELSE (IF RGt(draws[i], dropout) THEN <<shuffled[i]>> ELSE <<>>)
       \o Survivors(shuffled, draws, k, dropout, i + 1)

\* if (roundClients.length === 0 && shuffled.length > 0) roundClients.push(shuffled[0])
ForceInclude(roundClients, shuffled) ==
  IF Len(roundClients) = 0 /\ Len(shuffled) > 0 THEN <<shuffled[1]>>
  ELSE roundClients

\* cfg.dpClientLevel && cfg.dpClipNorm && cfg.dpClipNorm > 0
ClientLevelDP(cf) == cf.dpClientLevel /\ RGt(cf.dpClipNorm, Zero)

\* a plausible slip: the aggregate is sanitized whatever the privacy level
ServerLevelDPAlways(cf) == RGt(cf.dpClipNorm, Zero)

\* !cfg.dpClientLevel && cfg.dpClipNorm && cfg.dpClipNorm > 0
ServerLevelDP(cf) == ~cf.dpClientLevel /\ RGt(cf.dpClipNorm, Zero)

\* sigma = dpNoiseMult * dpClipNorm
Sigma(cf) == RMul(cf.dpNoiseMult, cf.dpClipNorm)

\* a Weights-shaped array of Box-Muller draws, all equal to x
NoiseLike(delta, x) == [li \in 1..Len(delta) |-> [i \in 1..Len(delta[li]) |-> x]]

\* clipUpdate, then addGaussianNoise when sigma > 0
Sanitize(delta, cf, x) ==
  Let(clipUpdate(delta, cf.dpClipNorm),
      LAMBDA clipped :
        IF RGt(Sigma(cf), Zero)
        THEN addGaussianNoise(clipped, Sigma(cf), NoiseLike(clipped, x))
        ELSE clipped)

\* the server-level sanitizer of the aggregate
ServerSanitize(agg, cf, x) ==
  IF ServerLevelDP(cf) THEN Sanitize(agg, cf, x) ELSE agg

\* the noise inputs of a round: one draw per client and one for the server
NoiseInputs(cf, population) ==
  IF RGt(cf.dpClipNorm, Zero) /\ RGt(Sigma(cf), Zero)
  THEN (IF cf.dpClientLevel
        THEN {[client |-> f, server |-> Zero] : f \in [0..(population - 1) -> NoiseDraws]}
        ELSE {[client |-> [i \in 0..(population - 1) |-> Zero], server |-> x] :
                x \in NoiseDraws})
  ELSE {[client |-> [i \in 0..(population - 1) |-> Zero], server |-> Zero]}

\* ------------------------------------------------------------------------
\* simulateFederatedTraining (unnamed/part_000)
\* ------------------------------------------------------------------------

\* client i of the argument: i + 1 examples in one batch
SimClient(i) ==
  [id |-> i, size |-> i + 1, batches |-> <<[j \in 1..(i + 1) |-> j - 1]>>]

\* the configurations simulateFederatedTraining is called with
SimConfigs ==
  {[p EXCEPT !.localEpochs = e] :
     e \in 1..MaxEpochs,
     p \in {BaseCfg,
            [BaseCfg EXCEPT !.clientDropout = Zero, !.weightedAggregation = TRUE],
            [BaseCfg EXCEPT !.clientDropout = One],
            [BaseCfg EXCEPT !.clientFrac = Q(1, 2), !.algo = "FedAdam"],
            [BaseCfg EXCEPT !.dpClipNorm = Q(1, 4), !.dpNoiseMult = Num(4),
                            !.dpClientLevel = TRUE],
            [BaseCfg EXCEPT !.dpClipNorm = Q(1, 4), !.dpNoiseMult = Num(4),
                            !.algo = "FedAdam"]}}

\* the state simulateFederatedTraining(clients, cfg, cb, numRounds, onDone)
\* leaves behind: w cloned, r = 1, the first doRound requested
SimInit ==
  /\ program = "train"
  /\ cfg \in SimConfigs
  /\ \E n \in 0..MaxClients : clients = [i \in 0..(n - 1) |-> SimClient(i)]
  /\ numRounds \in 0..MaxRounds
  /\ w = <<<<Zero>>>>
  /\ r = 1
  /\ adam = IF cfg.algo = "FedAdam"
            THEN Some(NewServerAdam(cfg.serverLR, cfg.beta1, cfg.beta2, cfg.eps))
            ELSE NULL
  /\ simPc = "scheduled"
  /\ evalCalls = 0
  /\ doneCalls = 0
  /\ round = NoRound
  /\ call = NoCall
  /\ result = NoResult
  /\ PgIdle

\* the epoch loop of doRound: every epoch is handed w
SimEpochTrace(client, cf) ==
  [e \in 1..cf.localEpochs |->
     [start |-> w, end |-> localTrainOneEpoch(w, client, cf)]]

\* one pass of doRound's client loop: the log entry and the delta pushed
SimClientPass(client, cf, x) ==
  Let(SimEpochTrace(client, cf),
  LAMBDA trace :
  Let(IF cf.localEpochs = 0 THEN w ELSE trace[cf.localEpochs].end,
  LAMBDA wLocal :
  Let(diffWeights(wLocal, w),
  LAMBDA delta :
    [client |-> client.id, cid |-> 0, base |-> w, start |-> w, trace |-> trace,
     after |-> wLocal,
     delta |-> IF ClientLevelDP(cf) THEN Sanitize(delta, cf, x) ELSE delta,
     weight |-> Num(client.size), sanitized |-> ClientLevelDP(cf),
     noised |-> ClientLevelDP(cf) /\ RGt(Sigma(cf), Zero)])))

\* the server update of doRound: FedAdam's step on the negated aggregate, or
\* w + agg
SimServerUpdate(cf, agg) ==
  IF cf.algo = "FedAdam" /\ adam # NULL
  THEN Let(AdamStep(adam[1], w,
                    [li \in 1..Len(agg) |->
                       [i \in 1..Len(agg[li]) |-> RNeg(agg[li][i])]]),
           LAMBDA st : [adam |-> Some(st.adam), out |-> st.out])
  ELSE [adam |-> adam, out |-> addScaled(w, agg, One)]

\* a plausible slip: the counter is reported after "r++"
ReportedRoundNext(counter) == counter + 1

\* "round: r" of the record handed to onRoundEnd
ReportedRound(counter) == counter

\* the callbacks doRound makes after aggregation, in the order of the code:
\* one localTrainOneEpoch per epoch of every participant, then setWeights,
\* evalGlobal, onRoundEnd, and the request of the next frame or onDone
RoundEvents(passes, again) ==
  [i \in 1..SumSeq([p \in 1..Len(passes) |-> Len(passes[p].trace)], 1) |->
     "localTrainOneEpoch"]
    \o <<"setWeights", "evalGlobal", "onRoundEnd">>
    \o (IF again THEN <<"requestAnimationFrame">> ELSE <<"onDone">>)

\* doRound, run by the pending animation frame
DoRound ==
  /\ program = "train"
  /\ simPc = "scheduled"
  /\ LET n == Cardinality(DOMAIN clients)
         k == SampleSize(cfg.clientFrac, n)
     IN  \E shuffled \in Shuffles(n), draws \in [1..Min2(k, n) -> RandomDraws],
            noise \in NoiseInputs(cfg, n) :
           \E roundClients \in {Survivors(shuffled, draws, k, cfg.clientDropout, 1)} :
           \E passes \in {[i \in 1..Len(roundClients) |->
                             SimClientPass(clients[roundClients[i]], cfg,
                                           noise.client[roundClients[i]])]} :
           LET deltas == [i \in 1..Len(passes) |->
                            [delta |-> passes[i].delta, weight |-> passes[i].weight]]
               obs == [path |-> "sim", raised |-> FALSE, population |-> n, k |-> k,
                       roundClients |-> roundClients, log |-> passes,
                       startWeights |-> NewArray(1, w), aggCalls |-> <<Len(deltas)>>,
                       serverSanitized |-> ServerLevelDP(cfg),
                       index |-> r, agg |-> NULL]
           IN  IF Len(deltas) = 0
               THEN \* aggregateDeltas reads deltas[0].delta: a TypeError leaves
                    \* doRound before setWeights, evalGlobal and the next request
                    /\ simPc' = "raised"
                    /\ round' = [obs EXCEPT !.raised = TRUE]
                    /\ UNCHANGED <<w, r, adam, evalCalls, doneCalls>>
               ELSE \E agg \in {ServerSanitize(
                                    aggregateDeltas(deltas, cfg.weightedAggregation),
                                    cfg, noise.server)} :
                    \E upd \in {SimServerUpdate(cfg, agg)} :
                        /\ w' = upd.out
                        /\ adam' = upd.adam
                        /\ evalCalls' = evalCalls + 1
                        /\ r' = r + 1
                        /\ round' = [obs EXCEPT !.agg = Some(agg)]
                                      @@ [installed |-> upd.out,
                                          reported |-> [round |-> ReportedRound(r),
                                                        w |-> upd.out],
                                          events |-> RoundEvents(passes,
                                                                 r + 1 <= numRounds)]
                        /\ IF r + 1 <= numRounds
                           THEN simPc' = "scheduled" /\ doneCalls' = doneCalls
                           ELSE simPc' = "done" /\ doneCalls' = doneCalls + 1
  /\ UNCHANGED <<program, cfg, clients, numRounds, fnVars, pg>>

\* ------------------------------------------------------------------------
\* k-means (unnamed/part_002)
\* ------------------------------------------------------------------------

\* the exclusive or of two n-bit naturals
RECURSIVE XorBits(_, _, _)
XorBits(a, b, n) ==
  IF n = 0 THEN 0
  ELSE (((a % 2) + (b % 2)) % 2) + 2 * XorBits(a \div 2, b \div 2, n - 1)

Xor32(x, y) == <<XorBits(x[1], y[1], 16), XorBits(x[2], y[2], 16)>>

RECURSIVE Pow2(_)
Pow2(n) == IF n = 0 THEN 1 ELSE 2 * Pow2(n - 1)

\* 32-bit words are pairs <<high 16 bits, low 16 bits>>
Half == Pow2(16)

\* x << k for k < 16, and x >>> k for k >= 16
Shl32(x, k) ==
  <<(x[1] * Pow2(k) + (x[2] * Pow2(k)) \div Half) % Half, (x[2] * Pow2(k)) % Half>>

Shr32(x, k) == <<0, x[1] \div Pow2(k - 16)>>

\* s ^= s << 13; s ^= s >>> 17; s ^= s << 5
XorShift32(s) ==
  LET s1 == Xor32(s, Shl32(s, 13))
      s2 == Xor32(s1, Shr32(s1, 17))
  IN  Xor32(s2, Shl32(s2, 5))

\* the word of a number given by its value as a signed 32-bit integer (what
\* "s ^= s << 13" and "seed >>> 0" make of it)
ToUint32(seed) == <<(seed \div Half) % Half, seed % Half>>

\* seed || 0x9e3779b1
SeedWord(seed) == IF seed = 0 THEN <<40503, 31153>> ELSE ToUint32(seed)

\* <<h, l>> with l brought back under 2^16
Carry(h, l) == <<h + l \div Half, l % Half>>

\* Math.floor(((s >>> 0) / 0xffffffff) * n): how many multiples m * (2^32 - 1),
\* 1 <= m <= n, are at most n * s
FloorDraw(s, n) ==
  LET ns == Carry(n * s[1], n * s[2])
  IN  Cardinality({m \in 1..n :
        LET mm == Carry(m * (Half - 1), m * (Half - 1))
        IN  ns[1] > mm[1] \/ (ns[1] = mm[1] /\ ns[2] >= mm[2])})

\* the Fisher-Yates loop of seededShuffle from position i down; a j past the
\* end of the array leaves undefined (-1) at i and a new element at j
RECURSIVE ShuffleFrom(_, _, _)
ShuffleFrom(arr, i, s) ==
  IF i <= 0 THEN arr
  ELSE Let(XorShift32(s),
       LAMBDA s1 :
       Let(FloorDraw(s1, i + 1),
       LAMBDA j :
         ShuffleFrom(IF j \in DOMAIN arr
                     THEN [arr EXCEPT ![i] = arr[j], ![j] = arr[i]]
                     ELSE [k \in DOMAIN arr \cup {j} |->
                             IF k = i THEN -1 ELSE IF k = j THEN arr[i] ELSE arr[k]],
                     i - 1, s1)))

seededShuffle(arr, seed) == ShuffleFrom(arr, ALen(arr) - 1, SeedWord(seed))

\* the draws of that loop: for every i the word s holds after the draw and
\* the j computed from it
RECURSIVE ShuffleDraws(_, _)
ShuffleDraws(i, s) ==
  IF i <= 0 THEN <<>>
  ELSE Let(XorShift32(s),
       LAMBDA s1 : <<[i |-> i, word |-> s1, j |-> FloorDraw(s1, i + 1)]>>
                     \o ShuffleDraws(i - 1, s1))

RECURSIVE DotFrom(_, _, _)
DotFrom(a, b, i) ==
  IF i > Len(a) THEN Zero ELSE RAdd(RMul(a[i], b[i]), DotFrom(a, b, i + 1))

dot(a, b) == DotFrom(a, b, 1)

norm(a) == RSqrt(dot(a, a))

cosineSim(a, b) ==
  RDiv(dot(a, b), RMul(OrElse(norm(a), Tiny), OrElse(norm(b), Tiny)))

l2Dist2(a, b) ==
  LET d == [i \in 1..Len(a) |-> RSub(a[i], b[i])] IN dot(d, d)

normalizeInPlace(v) ==
  Let(OrElse(norm(v), Tiny), LAMBDA d : [i \in 1..Len(v) |-> RDiv(v[i], d)])

\* the score of vector v against centroid c
Score(v, c, metric) ==
  IF metric = "cosine"
  THEN RSub(One, RMax(Num(-1), RMin(One, dot(v, c))))
  ELSE l2Dist2(v, c)

\* the inner loop of the assign step: the best centroid among c..K-1
RECURSIVE BestFrom(_, _, _, _, _, _)
BestFrom(v, centroids, metric, c, best, bestScore) ==
  IF c >= ALen(centroids) THEN best
  ELSE Let(Score(v, centroids[c], metric),
           LAMBDA score :
             IF RLt(score, bestScore)
             THEN BestFrom(v, centroids, metric, c + 1, c, score)
             ELSE BestFrom(v, centroids, metric, c + 1, best, bestScore))

AssignStep(data, centroids, metric) ==
  [i \in DOMAIN data |-> BestFrom(data[i], centroids, metric, 0, 0, PosInf)]

\* the sum of the vectors data[i], i >= from, that are assigned to c
RECURSIVE SumAssigned(_, _, _, _, _)
SumAssigned(data, assignments, c, from, sum) ==
  IF from >= ALen(data) THEN sum
  ELSE SumAssigned(data, assignments, c, from + 1,
         IF assignments[from] = c
         THEN [j \in 1..Len(sum) |-> RAdd(sum[j], data[from][j])]
         ELSE sum)

UpdateStep(data, assignments, centroids, metric) ==
  [c \in DOMAIN centroids |->
     Let(Cardinality({i \in DOMAIN data : assignments[i] = c}),
     LAMBDA count :
     Let(SumAssigned(data, assignments, c, 0, ZeroArray(Len(data[0]))),
     LAMBDA sum :
     Let([j \in 1..Len(sum) |-> RDiv(sum[j], Num(count))],
     LAMBDA mean :
       IF count > 0
       THEN (IF metric = "cosine" THEN normalizeInPlace(mean) ELSE mean)
       ELSE centroids[c])))]

\* a plausible slip: the loop stops after any assign step, whether or not
\* it changed an assignment
UnchangedAlways(assigned, assignments) == TRUE

\* "if (!changed) break": no assignment differs from the one before
Unchanged(assigned, assignments) == assigned = assignments

\* the Lloyd loop from iteration it on; steps lists the iterations run so
\* far, each with the assignments and centroids it began and ended with
RECURSIVE LloydFrom(_, _, _, _, _, _, _)
LloydFrom(data, assignments, centroids, metric, it, maxIters, steps) ==
  IF it >= maxIters
  THEN [assignments |-> assignments, centroids |-> centroids, steps |-> steps]
  ELSE Let(AssignStep(data, centroids, metric),
       LAMBDA assigned :
       Let(UpdateStep(data, assigned, centroids, metric),
       LAMBDA updated :
       Let(Append(steps, [before |-> assignments, centroids |-> centroids,
                          assigned |-> assigned, updated |-> updated]),
       LAMBDA run :
         IF Unchanged(assigned, assignments)
         THEN [assignments |-> assigned, centroids |-> updated, steps |-> run]
         ELSE LloydFrom(data, assigned, updated, metric, it + 1, maxIters, run))))

Lloyd(data, assignments, centroids, metric, it, maxIters) ==
  LloydFrom(data, assignments, centroids, metric, it, maxIters, <<>>)

\* data: clones of the vectors, normalized for the cosine metric
PreparedData(vectors, metric) ==
  IF metric = "cosine"
  THEN [i \in DOMAIN vectors |-> normalizeInPlace(vectors[i])]
  ELSE vectors

\* a plausible slip: every centroid starts at the first shuffled point
InitialCentroidsSame(data, idxs, K) == [i \in 0..(K - 1) |-> data[idxs[0]]]

\* "for (let i = 0; i < K; i++) centroids[i] = clone(data[idxs[i]])"
InitialCentroids(data, idxs, K) == [i \in 0..(K - 1) |-> data[idxs[i]]]

\* kMeans(vectors, K, metric, maxIters, seed) on N >= 1 vectors, as first
\* defined in part_002: K <= 1 returns the average, K is clamped to N
kMeans(vectors, K, metric, maxIters, seed) ==
  LET N == ALen(vectors)
  IN  IF K <= 1
      THEN [assignments |-> NewArray(N, 0),
            centroids |-> NewArray(1,
              [j \in 1..Len(vectors[0]) |->
                 RDiv(DotFrom([i \in 1..N |-> vectors[i - 1][j]],
                              [i \in 1..N |-> One], 1), Num(N))]),
            steps |-> <<>>]
      ELSE Let(PreparedData(vectors, metric),
           LAMBDA data :
           Let(seededShuffle([i \in 0..(N - 1) |-> i], seed),
           LAMBDA idxs :
             Lloyd(data, NewArray(N, 0),
                   InitialCentroids(data, idxs, Min2(K, N)),
                   metric, 0, maxIters)))

\* kMeans as defined the second time in part_002: no early return and no
\* clamp of K. For K > N idxs[i] is undefined from i = N on, data[undefined]
\* is undefined and clone(undefined) raises a TypeError on v.length
KMeansSecondRaises(vectors, K) == K > ALen(vectors)

\* the second definition of kMeans on 1 <= K <= N
kMeansSecond(vectors, K, metric, maxIters, seed) ==
  Let(PreparedData(vectors, metric),
  LAMBDA data :
  Let(seededShuffle([i \in 0..(ALen(vectors) - 1) |-> i], seed),
  LAMBDA idxs :
    Lloyd(data, NewArray(ALen(vectors), 0), InitialCentroids(data, idxs, K),
          metric, 0, maxIters)))

\* ------------------------------------------------------------------------
\* The playground page (unnamed/part_003): helpers of oneStepFL
\* ------------------------------------------------------------------------

\* the weights of a network nn.buildNetwork has just built
FreshNetwork == <<Zero>>

\* the labels of trainData
TrainLabels == <<0, 1, 1>>

\* state.batchSize
BatchSize == 2

\* the page's globals after start-up
PgStart ==
  [loaded |-> TRUE, network |-> FreshNetwork, iter |-> 0,
   flClients |-> NULL, flLastSeed |-> NULL, flLastSig |-> NULL,
   flServerAdam |-> NULL,
   flLastAlgo |-> "", flScaffoldC |-> NULL, flScaffoldCi |-> <<>>,
   flClusterWeights |-> NULL, flClientCluster |-> <<>>,
   flLastClientDelta |-> <<>>, flClusterCount |-> 1, flRoundsSinceCluster |-> 0,
   dpPrivacyBudget |-> Zero]

\* state.seed, state.batchSize, the "fl-alpha" input and state.problem as the
\* page starts; the seed is a token for the string
DefaultPage ==
  [seed |-> 0, batchSize |-> BatchSize, iidAlpha |-> One, problem |-> "classification"]

\* a plausible slip: a signature without the non-IID alpha
PageSigNoAlpha(page, cf) == <<page.seed, cf.numClients, page.batchSize, page.problem>>

\* sig: the five values joined by "|"; the last four hold no "|", so two
\* signatures are equal exactly when the five values are
PageSig(page, cf) ==
  <<page.seed, cf.numClients, page.batchSize, page.iidAlpha, page.problem>>

\* "flClients && flLastSeed === state.seed && flLastSig === sig"
UpToDate(g, cf, page) ==
  /\ g.flClients # NULL
  /\ g.flLastSeed = Some(page.seed)
  /\ g.flLastSig = Some(PageSig(page, cf))

\* what the generator decides in the partitioner of a rebuild: which clients
\* get the examples left after the reserve
RebuildGenerators(numClients) ==
  {[perms |-> [c \in 0..1 |-> [i \in 1..Len(IndicesOfClass(TrainLabels, c, 1)) |-> i - 1]],
    rot |-> 0, order |-> order,
    wts |-> [i \in 1..numClients |-> Q(1, numClients)],
    picks |-> <<0, 1>>] : order \in Shuffles(numClients)}

\* a plausible slip: the per-client control variates survive the rebuild
RebuiltScaffoldCiKept(g, n) == g.flScaffoldCi

\* "flScaffoldCi = []; for (...) flScaffoldCi.push(null);"
RebuiltScaffoldCi(g, n) == NewArray(n, NULL)

\* rebuildFLClientsIfNeeded with the page's settings at the call
rebuildFLClientsFor(g, cf, page, gen) ==
  IF UpToDate(g, cf, page) THEN g
  ELSE Let(makeClientsFromXY(TrainLabels, 2, cf.numClients, page.batchSize, One, gen),
           LAMBDA cl :
             [g EXCEPT !.flClients = Some(cl), !.flLastSeed = Some(page.seed),
                       !.flLastSig = Some(PageSig(page, cf)),
                       !.flScaffoldC = NULL,
                       !.flScaffoldCi = RebuiltScaffoldCi(g, ALen(cl)),
                       !.flClientCluster = NewArray(ALen(cl), 0),
                       !.flLastClientDelta = NewArray(ALen(cl), NULL),
                       !.flClusterWeights = NULL,
                       !.flClusterCount = 1,
                       !.flRoundsSinceCluster = 0])

\* while the page's settings stay as they started, only numClients changes
rebuildFLClientsIfNeeded(g, cf, gen) == rebuildFLClientsFor(g, cf, DefaultPage, gen)

nnFlattenWeights(g) == g.network

nnSetWeightsFromFlat(g, buf) == [g EXCEPT !.network = buf]

ensureClusterState(g, cf) ==
  LET K == Max2(1, cf.numClusters)
      base == nnFlattenWeights(g)
      n == ALen(g.flClients[1])
      stale == \/ g.flClusterWeights = NULL
               \/ ALen(g.flClusterWeights[1]) # K
               \/ Len(g.flClusterWeights[1][0]) # Len(base)
  IN  [g EXCEPT !.flClusterWeights = IF stale THEN Some(NewArray(K, base)) ELSE @,
                !.flClientCluster = IF ALen(@) # n THEN NewArray(n, 0) ELSE @,
                !.flLastClientDelta = IF ALen(@) # n THEN NewArray(n, NULL) ELSE @,
                !.flClusterCount = K]

\* counts[c] / total; counts has one slot per client, so counts[c] is
\* undefined, and the quotient NaN, for c >= flClients.length
ClusterShare(g, c) ==
  LET n == ALen(g.flClients[1])
      counts == [k \in 0..(n - 1) |->
                   Cardinality({i \in DOMAIN g.flClientCluster : g.flClientCluster[i] = k})]
      sum == SumSeq([i \in 1..n |-> counts[i - 1]], 1)
      total == IF sum = 0 THEN 1 ELSE sum
  IN  IF c < n THEN Q(counts[c], total) ELSE NaN

\* out[i] += wgt * w[i] over the clusters c, c + 1, ...
RECURSIVE WeightedSumFrom(_, _, _)
WeightedSumFrom(g, c, out) ==
  IF c >= ALen(g.flClusterWeights[1]) THEN out
  ELSE WeightedSumFrom(g, c + 1,
         [i \in 1..Len(out) |->
            RAdd(out[i], RMul(ClusterShare(g, c), g.flClusterWeights[1][c][i]))])

averageClusterWeightsBySize(g) ==
  IF g.flClusterWeights = NULL THEN nnFlattenWeights(g)
  ELSE WeightedSumFrom(g, 0, ZeroArray(Len(g.flClusterWeights[1][0])))

\* the indices of the clients that have a last delta, in increasing order
RECURSIVE OwnersFrom(_, _)
OwnersFrom(lastDelta, i) ==
  IF i >= ALen(lastDelta) THEN <<>>
  ELSE (IF lastDelta[i] # NULL THEN <<i>> ELSE <<>>) \o OwnersFrom(lastDelta, i + 1)

\* a plausible slip: the interval since the last reclustering is not looked at
TooSoonNever(g, cf) == FALSE

\* "if (flRoundsSinceCluster < (cfg.reclusterEvery || 5)) return;"
TooSoon(g, cf) ==
  g.flRoundsSinceCluster < (IF cf.reclusterEvery = 0 THEN 5 ELSE cf.reclusterEvery)

\* "if ((iter + 1) < (cfg.warmupRounds || 0)) return;"
WarmingUp(g, cf) == g.iter + 1 < cf.warmupRounds

\* reclusterIfNeeded gets past its three guards
PastGuards(g, cf) ==
  /\ cf.clusteringEnabled /\ cf.numClusters > 1
  /\ ~TooSoon(g, cf)
  /\ ~WarmingUp(g, cf)

\* a plausible slip: the assignments are rebuilt from scratch, the clients
\* without a delta landing in cluster 0
PriorAssignmentZero(g, i) == 0

\* newAssign = flClientCluster.slice(): what a client without a delta keeps
PriorAssignment(g, i) == g.flClientCluster[i]

\* reclusterIfNeeded; every client with a delta is an owner, so the
\* nearest-centroid loop over the others assigns nothing
reclusterIfNeeded(g, cf) ==
  IF ~PastGuards(g, cf) THEN g
  ELSE Let(OwnersFrom(g.flLastClientDelta, 0),
       LAMBDA owners :
         IF Len(owners) = 0 THEN [g EXCEPT !.flRoundsSinceCluster = 0]
         ELSE Let(kMeans([i \in 0..(Len(owners) - 1) |->
                            g.flLastClientDelta[owners[i + 1]][1]],
                         Min2(Max2(1, cf.numClusters), Len(owners)),
                         cf.similarityMetric, 20, 42),
              LAMBDA km :
                [g EXCEPT
                   !.flClientCluster =
                      [i \in DOMAIN g.flClientCluster |->
                         IF \E o \in 1..Len(owners) : owners[o] = i
                         THEN km.assignments[
                                (CHOOSE o \in 1..Len(owners) : owners[o] = i) - 1]
                         ELSE PriorAssignment(g, i)],
                   !.flRoundsSinceCluster = 0]))

\* the run of k-means inside reclusterIfNeeded takes place
KMeansRuns(g, cf) ==
  PastGuards(g, cf) /\ Len(OwnersFrom(g.flLastClientDelta, 0)) > 0

\* a plausible slip: the accumulator is left alone
SpendBudgetNot(g, cf) == g

\* "if (sigma > 0) { ...; flMetrics.dpPrivacyBudget += 1 / (sigma * sigma); }"
SpendBudget(g, cf) ==
  IF ~RGt(Sigma(cf), Zero) THEN g
  ELSE [g EXCEPT !.dpPrivacyBudget =
                    RAdd(@, RDiv(One, RMul(Sigma(cf), Sigma(cf))))]

\* the sanitizer run times times, as far as the accumulator goes
RECURSIVE SpendBudgetTimes(_, _, _)
SpendBudgetTimes(g, cf, times) ==
  IF times <= 0 THEN g
  ELSE SpendBudgetTimes(SpendBudget(g, cf), cf, times - 1)

\* a plausible slip: every algorithm takes the clustered path
ClusteredAnyAlgo(cf) == cf.clusteringEnabled /\ cf.numClusters > 1

\* var clustered = clusteringEnabled && numClusters > 1 && (FedAvg || FedProx)
Clustered(cf) ==
  cf.clusteringEnabled /\ cf.numClusters > 1 /\ cf.algo \in {"FedAvg", "FedProx"}

\* a plausible slip: the network is left as the previous client trained it
SetLocalWeightsSkip(g, w0) == g

\* "Set local weights to w0": a copy of w0 is loaded into the network
SetLocalWeights(g, w0) == nnSetWeightsFromFlat(g, w0)

\* the local epochs of one client, trained in place: epoch e starts from the
\* network as epoch e - 1 left it
RECURSIVE LocalEpochs(_, _, _, _, _, _, _)
LocalEpochs(wcur, w0, e, client, cf, c, ci) ==
  IF e <= 0 THEN <<>>
  ELSE Let(TrainEpoch(wcur, w0, 1, client, cf, c, ci),
           LAMBDA end :
             <<[start |-> <<wcur>>, end |-> <<end>>]>>
             \o LocalEpochs(end, w0, e - 1, client, cf, c, ci))

\* the weights the network holds after the epochs of trace, begun at start
AfterEpochs(trace, start) ==
  IF Len(trace) = 0 THEN start ELSE trace[Len(trace)].end[1]

\* the shuffles, dropout draws and noise draws of one round over n clients
RoundDraws(cf, n) ==
  {[shuffled |-> sh, draws |-> d, noise |-> x] :
     sh \in Shuffles(n),
     d \in [1..Min2(SampleSize(cf.clientFrac, n), n) -> RandomDraws],
     x \in NoiseInputs(cf, n)}

\* roundClients: the survivors, or the first of the shuffle when none survived
SampleClients(cf, n, rnd) ==
  ForceInclude(Survivors(rnd.shuffled, rnd.draws, SampleSize(cf.clientFrac, n),
                         cf.clientDropout, 1),
               rnd.shuffled)

\* ------------------------------------------------------------------------
\* oneStepFL: the single-model path
\* ------------------------------------------------------------------------

\* the 1e-8 floor of the client learning rate in SCAFFOLD's denominator
LRFloor == <<1, 100000000>>

\* "SCAFFOLD: initialize control variates if needed"
ScaffoldInit(g, cf, len) ==
  IF cf.algo # "SCAFFOLD" THEN g
  ELSE LET n == ALen(g.flClients[1])
           fresh(v) == v = NULL \/ Len(v[1]) # len
       IN  [g EXCEPT
              !.flScaffoldC = IF fresh(@) THEN Some(ZeroArray(len)) ELSE @,
              !.flScaffoldCi =
                 IF ALen(@) # n THEN NewArray(n, Some(ZeroArray(len)))
                 ELSE [i \in DOMAIN @ |->
                         IF fresh(@[i]) THEN Some(ZeroArray(len)) ELSE @[i]]]

\* one pass of the client loop: the globals after it, the log entry of the
\* client and the SCAFFOLD control delta pushed (if any)
SingleClientPass(g, cf, w0, clientIdx, x) ==
  LET client == g.flClients[1][clientIdx]
      scaf == /\ cf.algo = "SCAFFOLD"
              /\ g.flScaffoldC # NULL
              /\ ALen(g.flScaffoldCi) = ALen(g.flClients[1])
      ciVec == IF scaf /\ g.flScaffoldCi[clientIdx] # NULL
               THEN g.flScaffoldCi[clientIdx][1] ELSE ZeroArray(Len(w0))
      denom == RMul(Num(Max2(1, cf.localEpochs)), RMax(LRFloor, cf.clientLR))
  IN  Let(SetLocalWeights(g, w0),
      LAMBDA g1 :
      Let(LocalEpochs(g1.network, w0, cf.localEpochs, client, cf,
                      IF scaf THEN g.flScaffoldC ELSE NULL, ciVec),
      LAMBDA trace :
      Let(AfterEpochs(trace, g1.network),
      LAMBDA wLocalAfter :
      Let(IF scaf
          THEN [i \in 1..Len(w0) |->
                  RAdd(RNeg(g.flScaffoldC[1][i]),
                       RDiv(RSub(w0[i], wLocalAfter[i]), denom))]
          ELSE <<>>,
      LAMBDA deltaCi :
      Let(<<[i \in 1..Len(w0) |-> RSub(wLocalAfter[i], w0[i])]>>,
      LAMBDA delta0 :
        [g |-> [(IF ClientLevelDP(cf) THEN SpendBudget(g1, cf) ELSE g1) EXCEPT
                  !.network = wLocalAfter,
                  !.flScaffoldCi =
                     IF scaf
                     THEN [@ EXCEPT ![clientIdx] =
                             Some([i \in 1..Len(w0) |-> RAdd(ciVec[i], deltaCi[i])])]
                     ELSE @],
         entry |-> [client |-> clientIdx, cid |-> 0, bucket |-> 0, base |-> <<w0>>,
                    start |-> <<g1.network>>, trace |-> trace,
                    after |-> <<wLocalAfter>>,
                    delta |-> IF ClientLevelDP(cf) THEN Sanitize(delta0, cf, x)
                              ELSE delta0,
                    weight |-> Num(client.size), sanitized |-> ClientLevelDP(cf),
                    noised |-> ClientLevelDP(cf) /\ RGt(Sigma(cf), Zero)],
         deltaC |-> IF scaf
                    THEN <<[delta |-> <<deltaCi>>, weight |-> Num(client.size)]>>
                    ELSE <<>>])))))

\* the client loop from roundClients[rc] on
RECURSIVE SingleClients(_, _, _, _, _, _, _, _)
SingleClients(rc, roundClients, g, cf, w0, noise, log, deltaCs) ==
  IF rc > Len(roundClients) THEN [g |-> g, log |-> log, deltaCs |-> deltaCs]
  ELSE Let(SingleClientPass(g, cf, w0, roundClients[rc],
                            noise.client[roundClients[rc]]),
           LAMBDA p :
             SingleClients(rc + 1, roundClients, p.g, cf, w0, noise,
                           Append(log, p.entry), deltaCs \o p.deltaC))

\* the (delta, weight) pairs handed to aggregateDeltas
DeltasOf(log) ==
  [i \in 1..Len(log) |-> [delta |-> log[i].delta, weight |-> log[i].weight]]

\* a plausible slip: a new optimizer is made every round
AdamAlwaysNew(g, cf) == NewServerAdam(cf.serverLR, cf.beta1, cf.beta2, cf.eps)

\* "if (!flServerAdam) { flServerAdam = new ServerAdam(...) }": the object
\* step() is called on
AdamForRound(g, cf) ==
  IF g.flServerAdam = NULL
  THEN NewServerAdam(cf.serverLR, cf.beta1, cf.beta2, cf.eps)
  ELSE g.flServerAdam[1]

\* the single-model path of oneStepFL: the globals and the observation of
\* the round; aggregateDeltas raises on an empty batch
SingleRound(g, cf, rnd) ==
  LET w0 == nnFlattenWeights(g)
      n == ALen(g.flClients[1])
  IN  Let(SampleClients(cf, n, rnd),
      LAMBDA roundClients :
      Let(ScaffoldInit(g, cf, Len(w0)),
      LAMBDA gs :
      Let(SingleClients(1, roundClients, gs, cf, w0, rnd.noise, <<>>, <<>>),
      LAMBDA loop :
      Let(DeltasOf(loop.log),
      LAMBDA deltas :
      Let([path |-> "single", raised |-> Len(deltas) = 0, population |-> n,
           k |-> SampleSize(cf.clientFrac, n), roundClients |-> roundClients,
           log |-> loop.log, startWeights |-> NewArray(1, <<w0>>),
           aggCalls |-> <<Len(deltas)>>,
           serverSanitized |-> ServerLevelDP(cf), index |-> g.iter + 1,
           adamStepped |-> NULL, agg |-> NULL,
           scaffoldBefore |-> [c |-> g.flScaffoldC, ci |-> g.flScaffoldCi],
           scaffoldStart |-> [c |-> gs.flScaffoldC, ci |-> gs.flScaffoldCi]],
      LAMBDA obs :
        IF Len(deltas) = 0 THEN [g |-> loop.g, obs |-> obs]
        ELSE
        Let(ServerSanitize(aggregateDeltas(deltas, cf.weightedAggregation),
                           cf, rnd.noise.server),
        LAMBDA agg :
          LET updC == cf.algo = "SCAFFOLD" /\ Len(loop.deltaCs) > 0
                      /\ loop.g.flScaffoldC # NULL
              spent == IF ServerLevelDP(cf) THEN SpendBudget(loop.g, cf) ELSE loop.g
          IN  [g |->
                 [(IF cf.algo = "FedAdam"
                   THEN Let(AdamStep(AdamForRound(loop.g, cf), <<w0>>,
                                     <<[i \in 1..Len(agg[1]) |-> RNeg(agg[1][i])]>>),
                        LAMBDA stepped :
                          [spent EXCEPT !.flServerAdam = Some(stepped.adam),
                                        !.network = stepped.out[1]])
                   ELSE [spent EXCEPT
                           !.network = [i \in 1..Len(w0) |-> RAdd(w0[i], agg[1][i])],
                           !.flScaffoldC =
                              IF updC
                              THEN Let(aggregateDeltas(loop.deltaCs,
                                                       cf.weightedAggregation),
                                       LAMBDA aggC :
                                         Some([i \in 1..Len(loop.g.flScaffoldC[1]) |->
                                                 RAdd(loop.g.flScaffoldC[1][i],
                                                      aggC[1][i])]))
                              ELSE @])
                  EXCEPT !.iter = @ + 1],
               obs |-> [obs EXCEPT
                          !.agg = Some(agg),
                          !.aggCalls = IF updC THEN @ \o <<Len(loop.deltaCs)>> ELSE @,
                          !.adamStepped =
                             IF cf.algo = "FedAdam"
                             THEN Some(AdamForRound(loop.g, cf)) ELSE @]]))))))

\* ------------------------------------------------------------------------
\* oneStepFL: the clustered path
\* ------------------------------------------------------------------------

\* a plausible slip: every delta lands in the first bucket
BucketIndexFirst(cid, K) == 0

\* perCluster[cid].push(...)
BucketIndex(cid, K) == cid

\* one pass of the clustered client loop
ClusteredClientPass(g, cf, clientIdx, x) ==
  LET client == g.flClients[1][clientIdx]
      K == g.flClusterCount
      cid == Max2(0, Min2(K - 1, g.flClientCluster[clientIdx]))
      w0c == g.flClusterWeights[1][cid]
  IN  Let(SetLocalWeights(g, w0c),
      LAMBDA g1 :
      Let(LocalEpochs(g1.network, w0c,
                      IF cf.localEpochs = 0 THEN 1 ELSE cf.localEpochs, client,
                      [cf EXCEPT !.clientLR = OrElse(@, Q(3, 100))], NULL,
                      ZeroArray(Len(w0c))),
      LAMBDA trace :
      Let(AfterEpochs(trace, g1.network),
      LAMBDA wLocalAfter :
      Let(<<[i \in 1..Len(w0c) |-> RSub(wLocalAfter[i], w0c[i])]>>,
      LAMBDA delta0 :
      Let(IF ClientLevelDP(cf) THEN Sanitize(delta0, cf, x) ELSE delta0,
      LAMBDA delta :
        [g |-> [(IF ClientLevelDP(cf) THEN SpendBudget(g1, cf) ELSE g1) EXCEPT
                  !.network = wLocalAfter,
                  !.flLastClientDelta[clientIdx] = Some(delta[1])],
         entry |-> [client |-> clientIdx, cid |-> cid, bucket |-> BucketIndex(cid, K),
                    base |-> <<w0c>>, start |-> <<g1.network>>, trace |-> trace,
                    after |-> <<wLocalAfter>>, delta |-> delta,
                    weight |-> Num(client.size), sanitized |-> ClientLevelDP(cf),
                    noised |-> ClientLevelDP(cf) /\ RGt(Sigma(cf), Zero)]])))))

RECURSIVE ClusteredClients(_, _, _, _, _, _)
ClusteredClients(rc, roundClients, g, cf, noise, log) ==
  IF rc > Len(roundClients) THEN [g |-> g, log |-> log]
  ELSE Let(ClusteredClientPass(g, cf, roundClients[rc],
                               noise.client[roundClients[rc]]),
           LAMBDA p :
             ClusteredClients(rc + 1, roundClients, p.g, cf, noise,
                              Append(log, p.entry)))

\* the entries of log[i..] that were pushed to bucket c
RECURSIVE BucketFrom(_, _, _)
BucketFrom(log, c, i) ==
  IF i > Len(log) THEN <<>>
  ELSE (IF log[i].bucket = c THEN <<log[i]>> ELSE <<>>) \o BucketFrom(log, c, i + 1)

\* "Aggregate per cluster and update server cluster models"
ClusterUpdate(clusterWeights, log, cf, x) ==
  [c \in DOMAIN clusterWeights |->
     Let(DeltasOf(BucketFrom(log, c, 1)),
     LAMBDA deltasC :
       IF Len(deltasC) = 0 THEN clusterWeights[c]
       ELSE Let(ServerSanitize(aggregateDeltas(deltasC, cf.weightedAggregation),
                               cf, x),
                LAMBDA agg :
                  [i \in 1..Len(clusterWeights[c]) |->
                     RAdd(clusterWeights[c][i], agg[1][i])]))]

\* the sizes of the batches aggregateDeltas is called with, cluster by cluster
RECURSIVE ClusterAggCalls(_, _, _)
ClusterAggCalls(log, c, K) ==
  IF c >= K THEN <<>>
  ELSE (IF Len(BucketFrom(log, c, 1)) = 0 THEN <<>>
        ELSE <<Len(BucketFrom(log, c, 1))>>) \o ClusterAggCalls(log, c + 1, K)

\* the clustered path of oneStepFL
ClusteredRound(g, cf, rnd) ==
  Let(ensureClusterState(g, cf),
  LAMBDA g0 :
  Let(SampleClients(cf, ALen(g0.flClients[1]), rnd),
  LAMBDA roundClients :
  Let(ClusteredClients(1, roundClients, g0, cf, rnd.noise, <<>>),
  LAMBDA loop :
  Let(ClusterUpdate(g0.flClusterWeights[1], loop.log, cf, rnd.noise.server),
  LAMBDA updated :
  Let([SpendBudgetTimes(loop.g, cf,
                        IF ServerLevelDP(cf)
                        THEN Len(ClusterAggCalls(loop.log, 0, g0.flClusterCount))
                        ELSE 0)
         EXCEPT !.flClusterWeights = Some(updated)],
  LAMBDA g2 :
  Let(nnSetWeightsFromFlat(g2, averageClusterWeightsBySize(g2)),
  LAMBDA g3 :
  Let([g3 EXCEPT !.iter = @ + 1, !.flRoundsSinceCluster = @ + 1],
  LAMBDA g4 :
  Let(reclusterIfNeeded(g4, cf),
  LAMBDA g5 :
    [g |-> g5,
     obs |-> [path |-> "clustered", raised |-> FALSE,
              reclustered |-> KMeansRuns(g4, cf),
              counterReset |-> PastGuards(g4, cf),
              completed |-> g4.iter,
              hadDelta |-> [i \in DOMAIN g4.flLastClientDelta |->
                              g4.flLastClientDelta[i] # NULL],
              assignBefore |-> g4.flClientCluster,
              assignAfter |-> g5.flClientCluster,
              population |-> ALen(g0.flClients[1]),
              k |-> SampleSize(cf.clientFrac, ALen(g0.flClients[1])),
              roundClients |-> roundClients, log |-> loop.log,
              startWeights |-> [c \in DOMAIN g0.flClusterWeights[1] |->
                                  <<g0.flClusterWeights[1][c]>>],
              aggCalls |-> ClusterAggCalls(loop.log, 0, g0.flClusterCount),
              serverSanitized |-> ServerLevelDP(cf), index |-> g.iter + 1,
              endWeights |-> [c \in DOMAIN updated |-> <<updated[c]>>],
              serverNoise |-> rnd.noise.server,
              view |-> nnFlattenWeights(g3),
              weightsAtView |-> g2.flClusterWeights,
              weightsAfterView |-> g3.flClusterWeights]]))))))))

\* ------------------------------------------------------------------------
\* The playground page: its state and its handlers
\* ------------------------------------------------------------------------

\* the settings of the FL panel that readFLConfig() can return
Profiles ==
  {[BaseCfg EXCEPT !.numClients = MaxClients, !.clusteringEnabled = TRUE,
                   !.numClusters = 2],
   [BaseCfg EXCEPT !.numClients = MaxClients, !.weightedAggregation = TRUE,
                   !.localEpochs = MaxEpochs, !.clientDropout = Zero,
                   !.dpNoiseMult = Num(4)],
   [BaseCfg EXCEPT !.numClients = MaxClients, !.algo = "FedAdam",
                   !.clusteringEnabled = TRUE, !.numClusters = 2,
                   !.dpClipNorm = Q(1, 4), !.dpNoiseMult = Num(2)],
   [BaseCfg EXCEPT !.numClients = MaxClients, !.algo = "SCAFFOLD",
                   !.clusteringEnabled = TRUE, !.numClusters = 2,
                   !.localEpochs = MaxEpochs, !.clientDropout = Zero,
                   !.dpClipNorm = Q(1, 4), !.dpNoiseMult = Num(2),
                   !.dpClientLevel = TRUE],
   [BaseCfg EXCEPT !.numClients = MaxClients, !.algo = "FedProx",
                   !.clusteringEnabled = TRUE, !.numClusters = 2,
                   !.similarityMetric = "cosine", !.weightedAggregation = TRUE,
                   !.dpClipNorm = Q(1, 4), !.reclusterEvery = 2,
                   !.warmupRounds = 2, !.clientDropout = Zero],
   [BaseCfg EXCEPT !.numClients = 1, !.clusteringEnabled = TRUE,
                   !.numClusters = 2, !.dpClipNorm = Q(1, 4),
                   !.dpNoiseMult = Num(4), !.dpClientLevel = TRUE],
   [BaseCfg EXCEPT !.numClients = MaxClients, !.clusteringEnabled = TRUE,
                   !.numClusters = 2, !.warmupRounds = 3,
                   !.clientDropout = Zero]}

PlaygroundInit ==
  /\ program = "playground"
  /\ pg = PgStart
  /\ cfg = BaseCfg
  /\ round = NoRound
  /\ call = NoCall
  /\ result = NoResult
  /\ SimIdle

\* "if (flLastAlgo !== cfg.algo) { ... }"
AlgoChange(g, cf) ==
  IF g.flLastAlgo # cf.algo
  THEN [g EXCEPT !.flServerAdam = NULL, !.flScaffoldC = NULL,
                 !.flScaffoldCi = <<>>, !.flLastAlgo = cf.algo]
  ELSE g

\* the clustered rounds completed since the clients were last rebuilt, the
\* page last reset or the rounds-since-reclustering counter last zeroed by
\* reclusterIfNeeded, the round now ending included; prev is the observation
\* of the round before
ClusteredSince(prev, rebuilt, clusteredNow) ==
  (IF rebuilt \/ prev.path = "none" THEN 0
   ELSE IF prev.path = "clustered" /\ prev.counterReset THEN 0
   ELSE prev.gap)
  + (IF clusteredNow THEN 1 ELSE 0)

\* the FedAdam rounds performed in a row up to the round now ending, with
\* no other algorithm selected and no reset of the page in between; prev is
\* the observation of the round before, g the globals it left
AdamRoundsSince(prev, g, cf, obs) ==
  IF cf.algo # "FedAdam" \/ obs.raised THEN 0
  ELSE IF prev.path # "none" /\ g.flLastAlgo = "FedAdam" THEN prev.adamRounds + 1
  ELSE 1

\* the clients were repartitioned in the round now starting, or before it
\* with no SCAFFOLD round since; prev and prevCfg are the observation and the
\* settings of the round before
RepartitionedSince(prev, prevCfg, rebuilt) ==
  \/ rebuilt
  \/ prev.path # "none" /\ prev.repartitioned /\ prevCfg.algo # "SCAFFOLD"

\* oneStepFL, run by a timer tick or the step button
OneStepFL ==
  /\ program = "playground"
  /\ pg.iter < MaxRounds
  /\ \E cf \in Profiles :
       \E g0 \in {AlgoChange(pg, cf)} :
       LET rebuilt == ~UpToDate(g0, cf, DefaultPage)
           gens == IF rebuilt THEN RebuildGenerators(cf.numClients)
                   ELSE {CHOOSE gen \in RebuildGenerators(cf.numClients) : TRUE}
       IN  \E gen \in gens, rnd \in RoundDraws(cf, cf.numClients) :
           \E g1 \in {rebuildFLClientsIfNeeded(g0, cf, gen)} :
           \E res \in {IF Clustered(cf) THEN ClusteredRound(g1, cf, rnd)
                        ELSE SingleRound(g1, cf, rnd)} :
             /\ pg' = res.g
             /\ round' = res.obs @@
                           [rebuilt |-> rebuilt,
                            gap |-> ClusteredSince(round, rebuilt, Clustered(cf)),
                            repartitioned |-> RepartitionedSince(round, cfg, rebuilt),
                            budgetBefore |-> pg.dpPrivacyBudget,
                            prevAlgo |-> pg.flLastAlgo,
                            prevAdam |-> pg.flServerAdam,
                            adamRounds |-> AdamRoundsSince(round, pg, cf, res.obs)]
             /\ cfg' = cf
  /\ UNCHANGED <<program, fnVars, simVars>>

\* reset(), run by the reset button and by every change of the network or
\* the data set; the FL panel is enabled
reset(g) ==
  [g EXCEPT !.flClusterWeights = NULL, !.flClientCluster = <<>>,
            !.flLastClientDelta = <<>>, !.flClusterCount = 1,
            !.flRoundsSinceCluster = 0, !.flClients = NULL,
            !.flServerAdam = NULL, !.flLastSig = NULL, !.iter = 0,
            !.network = FreshNetwork, !.dpPrivacyBudget = Zero]

Reset ==
  /\ program = "playground"
  /\ pg' = reset(pg)
  /\ round' = NoRound
  /\ UNCHANGED <<program, cfg, fnVars, simVars>>

\* ------------------------------------------------------------------------
\* reclusterIfNeeded under call (unnamed/part_003)
\* ------------------------------------------------------------------------

\* the last deltas a client can have on record: none, or a one-weight delta
LastDeltas == {NULL, Some(<<Num(-1)>>), Some(<<Num(1)>>)}

\* the globals reclusterIfNeeded reads, for a population of MaxClients
\* clients and flClusterCount = 2
ReclusterInit ==
  /\ program = "reclusterIfNeeded"
  /\ \E assign \in [0..(MaxClients - 1) -> 0..1],
        last \in [0..(MaxClients - 1) -> LastDeltas],
        since \in 0..MaxRounds, it \in 1..MaxRounds :
       pg = [PgStart EXCEPT !.iter = it, !.flClientCluster = assign,
                            !.flLastClientDelta = last,
                            !.flClusterWeights = Some(NewArray(2, FreshNetwork)),
                            !.flClusterCount = 2,
                            !.flRoundsSinceCluster = since]
  /\ cfg \in Profiles
  /\ call = [fn |-> "reclusterIfNeeded"]
  /\ result = NoResult
  /\ round = NoRound
  /\ SimIdle

\* the call returns; result keeps the globals it was made with
ReclusterCall ==
  /\ program = "reclusterIfNeeded"
  /\ ~result.done
  /\ pg' = reclusterIfNeeded(pg, cfg)
  /\ result' = [done |-> TRUE, before |-> pg]
  /\ UNCHANGED <<program, cfg, round, call, simVars>>

SpecRecluster == ReclusterInit /\ [][ReclusterCall]_vars

\* ------------------------------------------------------------------------
\* clipUpdate under call (unnamed/part_001)
\* ------------------------------------------------------------------------

\* the elements of the updates handed to clipUpdate
ClipElements == {Num(-4), Zero, Q(3, 2), Num(2), Num(3), Num(4)}

\* Math.sqrt gives the norm of delta exactly
ExactNorm(delta) ==
  LET sq == SumSqGroups(delta, 1) IN RMul(RSqrt(sq), RSqrt(sq)) = sq

\* the updates: one group of two elements, or two groups of one element
ClipDeltas ==
  {d \in {<<<<a, b>>>> : a, b \in ClipElements}
           \cup {<<<<a>>, <<b>>>> : a, b \in ClipElements} : ExactNorm(d)}

\* the thresholds: not a number, infinite, negative, 0 and positive
ClipNorms == {NaN, PosInf, Num(-1), Zero, Q(1, 2), Num(2), Q(5, 2), Num(5)}

ClipInit ==
  /\ program = "clipUpdate"
  /\ \E d \in ClipDeltas, c \in ClipNorms :
       call = [fn |-> "clipUpdate", delta |-> d, clip |-> c]
  /\ result = NoResult
  /\ cfg = BaseCfg
  /\ round = NoRound
  /\ SimIdle
  /\ PgIdle

\* the arrays of the argument once clipUpdate has returned: it reads them
\* and stores its products in arrays of its own ("out")
ClipArgument(delta, clip) == delta

\* the call returns; result keeps the update it was made with
ClipCall ==
  /\ program = "clipUpdate"
  /\ ~result.done
  /\ result' = [done |-> TRUE, given |-> call.delta,
                value |-> clipUpdate(call.delta, call.clip)]
  /\ call' = [call EXCEPT !.delta = ClipArgument(call.delta, call.clip)]
  /\ UNCHANGED <<program, cfg, round, simVars, pg>>

SpecClip == ClipInit /\ [][ClipCall]_vars

\* ------------------------------------------------------------------------
\* kMeans under call (unnamed/part_002)
\* ------------------------------------------------------------------------

\* the most vectors handed to kMeans
MaxVectors == 3

\* the points clustered
KMeansPoints ==
  {<<Num(1), Zero>>, <<Zero, Num(1)>>, <<Num(3), Num(4)>>, <<Num(-3), Num(-4)>>}

\* the points of the test "kMeans (L2): two obvious clusters": a group around
\* (0, 1/2) and a group around (5, 11/2)
TwoGroups ==
  <<<<Zero, Zero>>, <<Zero, Num(1)>>, <<Num(5), Num(5)>>, <<Num(5), Num(6)>>>>

\* the orders in which n points can be handed over
Orderings(n) ==
  {f \in [0..(n - 1) -> 0..(n - 1)] : \A i, j \in DOMAIN f : f[i] = f[j] => i = j}

\* the seeds of the tests and the default, and the seed whose first draw is
\* the word 0xffffffff
KMeansSeeds == {0, 7, 42, 1584200935}

\* the values of maxIters: a cap the loop reaches, and the caller's 20
IterationCaps == {1, 20}

\* part_002 defines kMeans twice; the module the page imports holds one of
\* the two definitions
KMeansInit ==
  /\ program = "kMeans"
  /\ \/ \E N \in 1..MaxVectors :
          \E vectors \in [0..(N - 1) -> KMeansPoints], K \in 1..(MaxVectors + 1),
             metric \in {"cosine", "l2"}, definition \in {"first", "second"},
             maxIters \in IterationCaps :
            call = [fn |-> "kMeans", vectors |-> vectors, K |-> K, metric |-> metric,
                    maxIters |-> maxIters, seed |-> 42, definition |-> definition]
     \/ \E order \in Orderings(Len(TwoGroups)), seed \in KMeansSeeds,
           definition \in {"first", "second"} :
          call = [fn |-> "kMeans",
                  vectors |-> [i \in DOMAIN order |-> TwoGroups[order[i] + 1]],
                  K |-> 2, metric |-> "l2", maxIters |-> 50, seed |-> seed,
                  definition |-> definition]
  /\ result = NoResult
  /\ cfg = BaseCfg
  /\ round = NoRound
  /\ SimIdle
  /\ PgIdle

\* the centroids the Lloyd loop starts from; none when the first
\* definition returns early
KMeansInitial(c) ==
  IF c.definition = "first" /\ c.K <= 1 THEN NewArray(0, <<>>)
  ELSE InitialCentroids(PreparedData(c.vectors, c.metric),
                        seededShuffle([i \in DOMAIN c.vectors |-> i], c.seed),
                        IF c.definition = "first"
                        THEN Min2(c.K, ALen(c.vectors)) ELSE c.K)

\* the call returns or raises
KMeansCall ==
  /\ program = "kMeans"
  /\ ~result.done
  /\ result' =
       IF call.definition = "second" /\ KMeansSecondRaises(call.vectors, call.K)
       THEN [done |-> TRUE, raised |-> TRUE]
       ELSE [done |-> TRUE, raised |-> FALSE,
             value |-> IF call.definition = "first"
                       THEN kMeans(call.vectors, call.K, call.metric,
                                   call.maxIters, call.seed)
                       ELSE kMeansSecond(call.vectors, call.K, call.metric,
                                         call.maxIters, call.seed),
             initial |-> KMeansInitial(call)]
  /\ UNCHANGED <<program, cfg, round, call, simVars, pg>>

SpecKMeans == KMeansInit /\ [][KMeansCall]_vars

\* ------------------------------------------------------------------------
\* rebuildFLClientsIfNeeded across the page's handlers (unnamed/part_003)
\* ------------------------------------------------------------------------

\* tokens for the strings state.seed takes
PageSeeds == {0, 1}

\* the values of the "fl-alpha" input
PanelAlphas == {One, Num(10)}

\* the values of the batch size slider
PageBatchSizes == {1, BatchSize}

\* the values of the client count input
PanelClients == {1, MaxClients}

\* readFLConfig with the panel's client count: plain FedAvg, nobody drops out
RebuildCfg(numClients) ==
  [BaseCfg EXCEPT !.numClients = numClients, !.clientDropout = Zero]

\* the five values the partition depends on
Settings(c) ==
  <<c.page.seed, c.numClients, c.page.batchSize, c.page.iidAlpha, c.page.problem>>

\* the page after start-up; call holds the settings on the page, result what
\* was seen of the last step and the settings of the last build
RebuildInit ==
  /\ program = "rebuild"
  /\ pg = PgStart
  /\ cfg = RebuildCfg(MaxClients)
  /\ call = [fn |-> "page", page |-> DefaultPage, numClients |-> MaxClients]
  /\ result = [done |-> FALSE, lastBuild |-> NULL]
  /\ round = NoRound
  /\ SimIdle

\* oneStep on a page with the FL panel enabled: oneStepFL when the problem
\* is classification
RebuildStep ==
  /\ program = "rebuild"
  /\ call.page.problem = "classification"
  /\ pg.iter < MaxRounds
  /\ \E cf \in {RebuildCfg(call.numClients)} :
       \E g0 \in {AlgoChange(pg, cf)} :
       LET rebuilt == ~UpToDate(g0, cf, call.page)
           gens == IF rebuilt THEN RebuildGenerators(cf.numClients)
                   ELSE {CHOOSE gen \in RebuildGenerators(cf.numClients) : TRUE}
       IN  \E gen \in gens, rnd \in RoundDraws(cf, cf.numClients) :
           \E g1 \in {rebuildFLClientsFor(g0, cf, call.page, gen)} :
           \E res \in {SingleRound(g1, cf, rnd)} :
             /\ pg' = res.g
             /\ cfg' = cf
             /\ result' = [done |-> TRUE, rebuilt |-> rebuilt,
                           before |-> pg.flClients, atRound |-> g1.flClients,
                           settings |-> Settings(call),
                           builtWith |-> result.lastBuild,
                           lastBuild |-> IF rebuilt THEN Some(Settings(call))
                                         ELSE result.lastBuild]
  /\ UNCHANGED <<program, call, round, simVars>>

\* generateData: a new seed, "flClients = null"
generateData(g) == [g EXCEPT !.flClients = NULL]

\* the click on the regenerate button
RegenerateData ==
  /\ program = "rebuild"
  /\ \E seed \in PageSeeds : call' = [call EXCEPT !.page.seed = seed]
  /\ pg' = generateData(pg)
  /\ result' = [done |-> FALSE, lastBuild |-> result.lastBuild]
  /\ UNCHANGED <<program, cfg, round, simVars>>

\* the batch size slider: state.batchSize, then reset()
SetBatchSize ==
  /\ program = "rebuild"
  /\ \E b \in PageBatchSizes : call' = [call EXCEPT !.page.batchSize = b]
  /\ pg' = reset(pg)
  /\ result' = [done |-> FALSE, lastBuild |-> result.lastBuild]
  /\ UNCHANGED <<program, cfg, round, simVars>>

\* the problem drop-down: state.problem, generateData(), reset()
SetProblem ==
  /\ program = "rebuild"
  /\ \E problem \in {"classification", "regression"}, seed \in PageSeeds :
       call' = [call EXCEPT !.page.problem = problem, !.page.seed = seed]
  /\ pg' = reset(generateData(pg))
  /\ result' = [done |-> FALSE, lastBuild |-> result.lastBuild]
  /\ UNCHANGED <<program, cfg, round, simVars>>

\* the client count and alpha inputs of the FL panel, read by the next
\* readFLConfig
SetPanel ==
  /\ program = "rebuild"
  /\ \E n \in PanelClients, alpha \in PanelAlphas :
       call' = [call EXCEPT !.numClients = n, !.page.iidAlpha = alpha]
  /\ result' = [done |-> FALSE, lastBuild |-> result.lastBuild]
  /\ UNCHANGED <<program, cfg, round, simVars, pg>>

\* the reset button
ResetPage ==
  /\ program = "rebuild"
  /\ pg' = reset(pg)
  /\ result' = [done |-> FALSE, lastBuild |-> result.lastBuild]
  /\ UNCHANGED <<program, cfg, call, round, simVars>>

RebuildNext ==
  \/ RebuildStep \/ RegenerateData \/ SetBatchSize \/ SetProblem \/ SetPanel
  \/ ResetPage

SpecRebuild == RebuildInit /\ [][RebuildNext]_vars

\* ------------------------------------------------------------------------
\* Player (unnamed/part_003)
\* ------------------------------------------------------------------------

\* timers started in one run
MaxTimers == 3

\* the highest value timerIndex is followed to
MaxTimerIndex == 5

\* a new Player; timers are the d3 timers it has started, each with the
\* localTimerIndex of its closure and whether d3 still runs it; result holds
\* what the last event did and which timers had been started before the
\* last pause() or play()
PlayerInit ==
  /\ program = "player"
  /\ pg = [loaded |-> TRUE, timerIndex |-> 0, isPlaying |-> FALSE, timers |-> <<>>]
  /\ result = [done |-> FALSE, stepped |-> FALSE, by |-> 0, stale |-> {}]
  /\ call = NoCall
  /\ cfg = BaseCfg
  /\ round = NoRound
  /\ SimIdle

\* a plausible slip: pause() leaves timerIndex as it is
PausedIndexKept(timerIndex) == timerIndex

\* "this.timerIndex++" of pause()
PausedIndex(timerIndex) == timerIndex + 1

\* pause()
pause(p) == [p EXCEPT !.timerIndex = PausedIndex(@), !.isPlaying = FALSE]

\* play(): pause(), isPlaying = true, start(this.timerIndex)
play(p) ==
  Let(pause(p),
      LAMBDA q : [q EXCEPT !.isPlaying = TRUE,
                           !.timers = Append(@, [local |-> q.timerIndex,
                                                 running |-> TRUE])])

\* "if (localTimerIndex < this.timerIndex) return true;"
TimerDone(p, t) == p.timers[t].local < p.timerIndex

\* the timers started so far
Started(p) == 1..Len(p.timers)

Play ==
  /\ program = "player"
  /\ Len(pg.timers) < MaxTimers /\ pg.timerIndex < MaxTimerIndex
  /\ pg' = play(pg)
  /\ result' = [done |-> TRUE, stepped |-> FALSE, by |-> 0, stale |-> Started(pg)]
  /\ UNCHANGED <<program, cfg, round, call, simVars>>

Pause ==
  /\ program = "player"
  /\ pg.timerIndex < MaxTimerIndex
  /\ pg' = pause(pg)
  /\ result' = [done |-> TRUE, stepped |-> FALSE, by |-> 0, stale |-> Started(pg)]
  /\ UNCHANGED <<program, cfg, round, call, simVars>>

\* playOrPause(): the play/pause button
PlayOrPause ==
  /\ program = "player"
  /\ pg.timerIndex < MaxTimerIndex
  /\ IF pg.isPlaying
     THEN pg' = pause([pg EXCEPT !.isPlaying = FALSE])
     ELSE /\ Len(pg.timers) < MaxTimers
          /\ pg' = play([pg EXCEPT !.isPlaying = TRUE])
  /\ result' = [done |-> TRUE, stepped |-> FALSE, by |-> 0, stale |-> Started(pg)]
  /\ UNCHANGED <<program, cfg, round, call, simVars>>

\* d3 runs the callback of a timer it still has: the callback returns true,
\* and d3 drops the timer, or it calls oneStep()
Tick ==
  /\ program = "player"
  /\ \E t \in Started(pg) :
       /\ pg.timers[t].running
       /\ IF TimerDone(pg, t)
          THEN /\ pg' = [pg EXCEPT !.timers[t].running = FALSE]
               /\ result' = [result EXCEPT !.done = TRUE, !.stepped = FALSE, !.by = t]
          ELSE /\ pg' = pg
               /\ result' = [result EXCEPT !.done = TRUE, !.stepped = TRUE, !.by = t]
  /\ UNCHANGED <<program, cfg, round, call, simVars>>

PlayerNext == Play \/ Pause \/ PlayOrPause \/ Tick

SpecPlayer == PlayerInit /\ [][PlayerNext]_vars

\* ------------------------------------------------------------------------
\* seededShuffle under call (unnamed/part_002)
\* ------------------------------------------------------------------------

\* the longest array shuffled
MaxShuffle == 4

\* seeds as signed 32-bit integers: small ones, the callers' 42, -1, and
\* seeds under which the first, second and third word drawn is 0xffffffff
ShuffleSeeds ==
  (0..19) \cup {42, -1, 1584200935, -530320634, 153712863}

ShuffleInit ==
  /\ program = "seededShuffle"
  /\ \E N \in 1..MaxShuffle, seed \in ShuffleSeeds :
       call = [fn |-> "seededShuffle", arr |-> [i \in 0..(N - 1) |-> i], seed |-> seed]
  /\ result = NoResult
  /\ cfg = BaseCfg
  /\ round = NoRound
  /\ SimIdle
  /\ PgIdle

\* the call returns; value is the array as the call left it
ShuffleCall ==
  /\ program = "seededShuffle"
  /\ ~result.done
  /\ result' = [done |-> TRUE,
                value |-> seededShuffle(call.arr, call.seed),
                draws |-> ShuffleDraws(ALen(call.arr) - 1, SeedWord(call.seed))]
  /\ UNCHANGED <<program, cfg, round, call, simVars, pg>>

SpecShuffle == ShuffleInit /\ [][ShuffleCall]_vars

\* ------------------------------------------------------------------------
\* aggregateDeltas under call (fl/algorithms.ts)
\* ------------------------------------------------------------------------

\* the largest batch handed to aggregateDeltas
MaxBatch == 2

\* the deltas of the batches: one group of two elements
AggDeltas == {<<<<Num(1), Num(2)>>>>, <<<<Num(3), Num(4)>>>>,
              <<<<Num(2), Num(2)>>>>, <<<<Num(-1), Zero>>>>}

\* the participation weights of the batches
AggWeights == {Zero, Num(1), Num(3)}

AggInit ==
  /\ program = "aggregateDeltas"
  /\ \E n \in 0..MaxBatch :
       \E ds \in [1..n -> [delta : AggDeltas, weight : AggWeights]] :
         \E weighted \in BOOLEAN :
           call = [fn |-> "aggregateDeltas", deltas |-> ds, weighted |-> weighted]
  /\ result = NoResult
  /\ cfg = BaseCfg
  /\ round = NoRound
  /\ SimIdle
  /\ PgIdle

\* the call returns, or raises the TypeError of deltas[0].delta
AggCall ==
  /\ program = "aggregateDeltas"
  /\ ~result.done
  /\ result' = IF Len(call.deltas) = 0
               THEN [done |-> TRUE, raised |-> TRUE]
               ELSE [done |-> TRUE, raised |-> FALSE,
                     value |-> aggregateDeltas(call.deltas, call.weighted)]
  /\ UNCHANGED <<program, cfg, round, call, simVars, pg>>

SpecAgg == AggInit /\ [][AggCall]_vars

\* ------------------------------------------------------------------------
\* makeClientsFromXY under call (fl/partition.ts)
\* ------------------------------------------------------------------------

\* the largest number of source examples
MaxExamples == 3

\* the number of classes of the calls
NumClasses == 2

\* the values of balance of the calls
Balances == {Zero, Q(1, 2), One}

\* Dirichlet weights over n clients: multiples of 1/4 that sum to 1
DirichletDraws(n) ==
  {[i \in 1..n |-> Q(v[i], 4)] :
     v \in {u \in [1..n -> 0..4] : SumSeq(u, 1) = 4}}

PartInit ==
  /\ program = "makeClientsFromXY"
  /\ \E n \in 0..MaxExamples :
       \E y \in [1..n -> 0..(NumClasses - 1)] :
         \E numClients \in 1..MaxClients, batchSize \in 1..2, balance \in Balances :
           call = [fn |-> "makeClientsFromXY", y |-> y, numClasses |-> NumClasses,
                   numClients |-> numClients, batchSize |-> batchSize,
                   balance |-> balance]
  /\ result = NoResult
  /\ cfg = BaseCfg
  /\ round = NoRound
  /\ SimIdle
  /\ PgIdle

\* what the random generator can decide during one call
Generators(y, numClasses, numClients, balance) ==
  LET permSets == [c \in 0..(numClasses - 1) |->
                     Shuffles(Len(IndicesOfClass(y, c, 1)))]
  IN  {[perms |-> pm, rot |-> rot, order |-> order, wts |-> wts, picks |-> picks] :
         pm \in {f \in [0..(numClasses - 1) -> UNION {permSets[c] : c \in 0..(numClasses - 1)}] :
                   \A c \in 0..(numClasses - 1) : f[c] \in permSets[c]},
         rot \in 0..(numClasses - 1),
         order \in Shuffles(numClients),
         wts \in IF RLe(Q(999, 1000), balance)
                 THEN {[i \in 1..numClients |-> Q(1, numClients)]}
                 ELSE DirichletDraws(numClients),
         picks \in [1..2 -> 0..(numClasses - 1)]}

\* the call returns
PartCall ==
  /\ program = "makeClientsFromXY"
  /\ ~result.done
  /\ \E gen \in Generators(call.y, call.numClasses, call.numClients, call.balance) :
       result' = [done |-> TRUE, raised |-> FALSE,
                  value |-> makeClientsFromXY(call.y, call.numClasses, call.numClients,
                                              call.batchSize, call.balance, gen)]
  /\ UNCHANGED <<program, cfg, round, call, simVars, pg>>

SpecPart == PartInit /\ [][PartCall]_vars

\* ------------------------------------------------------------------------
\* makeClientsFromXY and sampleDirichlet, seeded and not (fl/partition.ts)
\* ------------------------------------------------------------------------

\* calls made in one run
MaxCalls == 3

\* the seeds handed over
PartSeeds == {0, 1, 2}

\* sampleDirichlet's persistent state before its first call: "_state = 3407",
\* "_gaussSpare = null"
DirichletAtStart == [state |-> <<0, 3407>>, spare |-> NULL]

\* a plausible slip: the sampler's state is left as the calls before left it
DirichletKept(seed, dir) == dir

\* "if (useSeed) { _state = (seed ^ 0x9e3779b9) >>> 0; _gaussSpare = null; }"
DirichletForCall(seed, dir) ==
  IF seed # NULL
  THEN [state |-> Xor32(ToUint32(seed[1]), <<40503, 31161>>), spare |-> NULL]
  ELSE dir

\* the states a call can leave the sampler in: one or two more words drawn,
\* a spare normal deviate kept or not
DirichletAfter(dir) ==
  {[state |-> st, spare |-> sp] :
     st \in {XorShift32(dir.state), XorShift32(XorShift32(dir.state))},
     sp \in {NULL, Some("z1")}}

\* the n-th element of a set, in the order CHOOSE takes them
RECURSIVE Nth(_, _)
Nth(S, n) ==
  LET x == CHOOSE e \in S : TRUE
  IN  IF n = 0 THEN x ELSE Nth(S \ {x}, n - 1)

\* what the generators decide in a seeded call: a function of the words the
\* local generator draws from "rngState = seed >>> 0" and, for the class
\* picks, of the sampler's state as well; floating point is not modelled,
\* the decisions are looked up by the low halves of the first words
SeededGenerator(c, seed, dir) ==
  Let(XorShift32(ToUint32(seed))[2],
  LAMBDA h :
  Let(XorShift32(dir.state)[2] + (IF dir.spare = NULL THEN 0 ELSE 1),
  LAMBDA d :
    [perms |-> [k \in 0..(c.numClasses - 1) |->
                  Let(Shuffles(Len(IndicesOfClass(c.y, k, 1))),
                      LAMBDA S : Nth(S, (h + k) % Cardinality(S)))],
     rot |-> h % c.numClasses,
     order |-> Let(Shuffles(c.numClients),
                   LAMBDA S : Nth(S, (h \div 2) % Cardinality(S))),
     wts |-> IF RLe(Q(999, 1000), c.balance)
             THEN [i \in 1..c.numClients |-> Q(1, c.numClients)]
             ELSE Let(DirichletDraws(c.numClients),
                      LAMBDA S : Nth(S, (h \div 4) % Cardinality(S))),
     picks |-> Let([1..2 -> 0..(c.numClasses - 1)],
                   LAMBDA S : Nth(S, (h + d) % Cardinality(S)))]))

\* no call made yet; result holds the sampler's state, the number of calls
\* and what the first call with each seed returned
SeededInit ==
  /\ program = "seeded"
  /\ \E numClients \in 1..MaxClients, balance \in {Q(1, 2), One} :
       call = [fn |-> "makeClientsFromXY", y |-> TrainLabels, numClasses |-> NumClasses,
               numClients |-> numClients, batchSize |-> BatchSize,
               balance |-> balance]
  /\ result = [done |-> FALSE, calls |-> 0, dir |-> DirichletAtStart,
               first |-> [seed \in PartSeeds |-> NULL]]
  /\ cfg = BaseCfg
  /\ round = NoRound
  /\ SimIdle
  /\ PgIdle

\* makeClientsFromXY(X, y, numClasses, numClients, batchSize, alpha, balance, seed)
SeededCall ==
  /\ program = "seeded"
  /\ result.calls < MaxCalls
  /\ \E seed \in PartSeeds :
       \E dir \in {DirichletForCall(Some(seed), result.dir)} :
       \E value \in {makeClientsFromXY(call.y, call.numClasses, call.numClients,
                                        call.batchSize, call.balance,
                                        SeededGenerator(call, seed, dir))} :
       \E after \in DirichletAfter(dir) :
         result' = [done |-> TRUE, calls |-> result.calls + 1, dir |-> after,
                    first |-> IF result.first[seed] = NULL
                              THEN [result.first EXCEPT ![seed] = Some(value)]
                              ELSE result.first,
                    seed |-> Some(seed), value |-> value]
  /\ UNCHANGED <<program, cfg, round, call, simVars, pg>>

\* the call without a seed, as rebuildFLClientsIfNeeded makes it: every draw
\* is Math.random's, rot is 0, and the sampler goes on from where it was
UnseededCall ==
  /\ program = "seeded"
  /\ result.calls < MaxCalls
  /\ \E gen \in {g \in Generators(call.y, call.numClasses, call.numClients,
                                   call.balance) : g.rot = 0} :
       \E after \in DirichletAfter(DirichletForCall(NULL, result.dir)) :
         result' = [done |-> TRUE, calls |-> result.calls + 1, dir |-> after,
                    first |-> result.first, seed |-> NULL,
                    value |-> makeClientsFromXY(call.y, call.numClasses,
                                                call.numClients, call.batchSize,
                                                call.balance, gen)]
  /\ UNCHANGED <<program, cfg, round, call, simVars, pg>>

\* sampleDirichlet(k, alpha) called from elsewhere
SampleDirichletCall ==
  /\ program = "seeded"
  /\ result.calls < MaxCalls
  /\ \E after \in DirichletAfter(result.dir) :
       result' = [done |-> FALSE, calls |-> result.calls + 1, dir |-> after,
                  first |-> result.first]
  /\ UNCHANGED <<program, cfg, round, call, simVars, pg>>

SeededNext == SeededCall \/ UnseededCall \/ SampleDirichletCall

SpecSeeded == SeededInit /\ [][SeededNext]_vars

\* ------------------------------------------------------------------------
\* The program
\* ------------------------------------------------------------------------

Init == SimInit \/ PlaygroundInit

Next == DoRound \/ OneStepFL \/ Reset

Spec == Init /\ [][Next]_vars

\* ------------------------------------------------------------------------
\* Properties
\* ------------------------------------------------------------------------

\* a round handler has run
RoundSeen == round.path # "none"

\* C1: simulateFederatedTraining over at least one client, configured for
\* N >= 0 rounds, calls evalGlobal exactly N times and then onDone exactly
\* once, whatever clientDropout is:
\* doRound never raises, never evaluates more than N times, and when it has
\* stopped it has evaluated N times and called onDone once.
C1_EvalNTimesThenDone ==
  (program = "train" /\ ALen(clients) >= 1) =>
    /\ simPc # "raised"
    /\ evalCalls <= numRounds
    /\ simPc = "done" => (evalCalls = numRounds /\ doneCalls = 1)

\* C2: in every round of every path, over a population of P >= 1 clients, the
\* participating set is non-empty, has at most k = max(1, round(clientFrac * P))
\* members and holds no client twice.
C2_ParticipantsBounded ==
  (RoundSeen /\ round.population >= 1) =>
    /\ Len(round.roundClients) >= 1
    /\ Len(round.roundClients) <= round.k
    /\ \A i, j \in 1..Len(round.roundClients) :
         i # j => round.roundClients[i] # round.roundClients[j]

\* C3: no round raises to its caller: aggregateDeltas is never called on an
\* empty batch.
C3_NoEmptyBatch ==
  RoundSeen =>
    /\ ~round.raised
    /\ \A i \in 1..Len(round.aggCalls) : round.aggCalls[i] >= 1

\* the sum over the batch of weight * delta[li][i] (weighted) or delta[li][i],
\* for integer deltas and weights
RECURSIVE BatchSum(_, _, _, _, _)
BatchSum(deltas, weighted, li, i, k) ==
  IF k > Len(deltas) THEN 0
  ELSE (IF weighted THEN deltas[k].weight[1] ELSE 1) * deltas[k].delta[li][i][1]
       + BatchSum(deltas, weighted, li, i, k + 1)

RECURSIVE BatchWeight(_, _, _)
BatchWeight(deltas, weighted, k) ==
  IF k > Len(deltas) THEN 0
  ELSE (IF weighted THEN deltas[k].weight[1] ELSE 1) + BatchWeight(deltas, weighted, k + 1)

\* C4: on a non-empty batch with positive weight sum aggregateDeltas returns,
\* in every coordinate, the arithmetic mean of the deltas (unweighted) or
\* sum(weight * delta) / sum(weight) (weighted); the weights play no part in
\* unweighted mode.
C4_AggregateIsMean ==
  (program = "aggregateDeltas" /\ result.done /\ Len(call.deltas) > 0
     /\ BatchWeight(call.deltas, TRUE, 1) > 0) =>
    /\ ~result.raised
    /\ \A li \in 1..Len(call.deltas[1].delta) :
         \A i \in 1..Len(call.deltas[1].delta[li]) :
           result.value[li][i] =
             Q(BatchSum(call.deltas, call.weighted, li, i, 1),
               BatchWeight(call.deltas, call.weighted, 1))

\* C4 happens: [1,2] of weight 1 and [3,4] of weight 3 give [2.5, 3.5]
C4_Witness ==
  /\ program = "aggregateDeltas"
  /\ result.done
  /\ call.weighted
  /\ call.deltas = <<[delta |-> <<<<Num(1), Num(2)>>>>, weight |-> Num(1)],
                     [delta |-> <<<<Num(3), Num(4)>>>>, weight |-> Num(3)]>>
  /\ result.value = <<<<Q(5, 2), Q(7, 2)>>>>

\* C5: makeClientsFromXY returns exactly numClients records, their sizes sum
\* to at most the number of source examples, and with at least numClients
\* examples every record has size >= 1.
C5_PartitionSizes ==
  (program = "makeClientsFromXY" /\ result.done) =>
    LET cl == result.value
        n == call.numClients
        total == Len(call.y)
    IN  /\ DOMAIN cl = 0..(n - 1)
        /\ SumSeq([i \in 1..n |-> cl[i - 1].size], 1) <= total
        /\ total >= n => \A c \in 0..(n - 1) : cl[c].size >= 1

\* C5 happens: a skewed split of three examples over two clients
C5_Witness ==
  /\ program = "makeClientsFromXY"
  /\ result.done
  /\ Len(call.y) = 3
  /\ call.numClients = 2
  /\ call.balance = Zero
  /\ result.value[0].size = 1
  /\ result.value[1].size = 2

\* C6: within one round every participating client starts local training
\* from the round-start weights of the model it trains against (the global
\* weights, or its cluster's), and its delta is taken against those weights.
C6_SameRoundStart ==
  RoundSeen =>
    \A i \in 1..Len(round.log) :
      LET e == round.log[i]
      IN  /\ e.start = round.startWeights[e.cid]
          /\ e.base = round.startWeights[e.cid]
          /\ ~e.sanitized => e.delta = diffWeights(e.after, round.startWeights[e.cid])

\* C6 happens: a second client of the same model trains after a first one
\* whose training moved the weights
C6_Witness ==
  /\ program = "playground"
  /\ RoundSeen
  /\ Len(round.log) >= 2
  /\ round.log[1].after # round.log[1].start
  /\ round.log[2].cid = round.log[1].cid

\* C7: with localEpochs = E >= 1 the weights read back for a client are those
\* of E successive local epochs: epoch 1 starts from the round-start weights,
\* epoch e + 1 from the weights epoch e produced.
C7_SuccessiveEpochs ==
  (RoundSeen /\ cfg.localEpochs >= 1) =>
    \A i \in 1..Len(round.log) :
      LET e == round.log[i]
      IN  /\ Len(e.trace) = cfg.localEpochs
          /\ e.trace[1].start = e.base
          /\ \A k \in 1..(Len(e.trace) - 1) : e.trace[k + 1].start = e.trace[k].end
          /\ e.after = e.trace[Len(e.trace)].end

\* the (delta, weight) pairs of the entries of log[i..] that trained against
\* cluster c
RECURSIVE TrainedAgainst(_, _, _)
TrainedAgainst(log, c, i) ==
  IF i > Len(log) THEN <<>>
  ELSE (IF log[i].cid = c
        THEN <<[delta |-> log[i].delta, weight |-> log[i].weight]>> ELSE <<>>)
       \o TrainedAgainst(log, c, i + 1)

\* C8 (as amended): in a clustered round the weights of cluster c after the
\* round are its round-start weights plus the mean of the deltas of exactly
\* the participants that trained against c, that mean being clipped and
\* noised first when server-level DP is on; a cluster with no participant
\* keeps its weights.
C8_ClusterUpdateSanitized ==
  (RoundSeen /\ round.path = "clustered") =>
    \A c \in DOMAIN round.startWeights :
      LET ds == TrainedAgainst(round.log, c, 1)
      IN  IF Len(ds) = 0 THEN round.endWeights[c] = round.startWeights[c]
          ELSE round.endWeights[c] =
                 addScaled(round.startWeights[c],
                           ServerSanitize(aggregateDeltas(ds, cfg.weightedAggregation),
                                          cfg, round.serverNoise),
                           One)

\* C8 as stated: the weights of cluster c after the round are its round-start
\* weights plus the mean of the deltas of its participants.
C8_ClusterUpdatePlainMean ==
  (RoundSeen /\ round.path = "clustered") =>
    \A c \in DOMAIN round.startWeights :
      LET ds == TrainedAgainst(round.log, c, 1)
      IN  IF Len(ds) = 0 THEN round.endWeights[c] = round.startWeights[c]
          ELSE round.endWeights[c] =
                 addScaled(round.startWeights[c],
                           aggregateDeltas(ds, cfg.weightedAggregation), One)

\* C8 happens: under server-level DP one cluster moves by a clipped mean
\* while another, without participants, keeps its weights
C8_Witness ==
  /\ RoundSeen
  /\ round.path = "clustered"
  /\ round.serverSanitized
  /\ \E c, d \in DOMAIN round.startWeights :
       /\ Len(TrainedAgainst(round.log, c, 1)) > 0
       /\ round.endWeights[c] # round.startWeights[c]
       /\ Len(TrainedAgainst(round.log, d, 1)) = 0

\* C9 (as amended): with clustering enabled and more than one cluster, the
\* round updates each cluster's weights independently exactly when the
\* algorithm is FedAvg or FedProx; under FedAdam and SCAFFOLD the round
\* updates one global model.
C9_PerClusterOnlyAvgProx ==
  (program = "playground" /\ RoundSeen /\ cfg.clusteringEnabled /\ cfg.numClusters > 1) =>
    /\ round.path = "clustered" <=> cfg.algo \in {"FedAvg", "FedProx"}
    /\ round.path = "clustered" => ALen(round.startWeights) = cfg.numClusters
    /\ round.path = "single" => ALen(round.startWeights) = 1

\* C9 as stated: with clustering enabled and more than one cluster the server
\* update is applied per cluster, for each of the four algorithms.
C9_PerClusterEveryAlgo ==
  (program = "playground" /\ RoundSeen /\ cfg.clusteringEnabled /\ cfg.numClusters > 1) =>
    /\ round.path = "clustered"
    /\ ALen(round.startWeights) = cfg.numClusters

\* C9 happens: a FedAdam round with clustering enabled and two clusters
C9_Witness ==
  /\ program = "playground"
  /\ RoundSeen
  /\ cfg.clusteringEnabled
  /\ cfg.numClusters > 1
  /\ cfg.algo = "FedAdam"
  /\ round.path = "single"

\* C10: after every round and every reclustering the assignment array has
\* one entry per client and every entry is in [0, K), K = max(1, numClusters)
\* as currently configured.
C10_AssignmentsInRange ==
  (program = "playground" /\ RoundSeen) =>
    /\ ALen(pg.flClientCluster) = ALen(pg.flClients[1])
    /\ \A i \in DOMAIN pg.flClientCluster :
         pg.flClientCluster[i] \in 0..(Max2(1, cfg.numClusters) - 1)

\* C11: when reclusterIfNeeded zeroes the rounds-since-reclustering counter
\* at the end of a clustered round, at least reclusterEvery clustered rounds
\* have completed since the counter was last zeroed (by a reclustering, a
\* rebuild of the clients or a reset of the page); and it never gets past
\* its guards when clustering is disabled or numClusters <= 1
C11_ReclusterInterval ==
  round.path = "clustered" /\ round.counterReset
    => /\ round.gap >= cfg.reclusterEvery
       /\ cfg.clusteringEnabled /\ cfg.numClusters > 1

\* a reclustering that had to wait: the interval is two rounds and k-means
\* runs at the end of the second clustered round
C11_Witness ==
  /\ round.path = "clustered" /\ round.reclustered
  /\ cfg.reclusterEvery = 2 /\ round.gap = 2

\* C12: at the end of a clustered round that completes fewer than
\* warmupRounds rounds since the last reset, k-means does not run and the
\* cluster assignments are what they were
C12_NoReclusterInWarmup ==
  round.path = "clustered" /\ round.completed < cfg.warmupRounds
    => ~round.reclustered /\ round.assignAfter = round.assignBefore

\* C13: a call of reclusterIfNeeded that gets past its guards leaves the
\* assignment of every client without a recorded delta as it was; when no
\* client has a recorded delta it leaves every assignment, the cluster
\* weights and the cluster count as they were and sets the
\* rounds-since-reclustering counter to 0
C13_NoDeltaKeepsAssignment ==
  program = "reclusterIfNeeded" /\ result.done /\ PastGuards(result.before, cfg)
    => /\ \A i \in DOMAIN result.before.flLastClientDelta :
            result.before.flLastClientDelta[i] = NULL
              => pg.flClientCluster[i] = result.before.flClientCluster[i]
       /\ (\A i \in DOMAIN result.before.flLastClientDelta :
             result.before.flLastClientDelta[i] = NULL)
            => /\ pg.flClientCluster = result.before.flClientCluster
               /\ pg.flClusterWeights = result.before.flClusterWeights
               /\ pg.flClusterCount = result.before.flClusterCount
               /\ pg.flRoundsSinceCluster = 0

\* a call past the guards with no delta on record, clients in cluster 1 and
\* a counter that was not 0
C13_Witness ==
  /\ program = "reclusterIfNeeded" /\ result.done
  /\ PastGuards(result.before, cfg)
  /\ \A i \in DOMAIN result.before.flLastClientDelta :
       result.before.flLastClientDelta[i] = NULL
  /\ \E i \in DOMAIN result.before.flClientCluster :
       result.before.flClientCluster[i] = 1
  /\ result.before.flRoundsSinceCluster > 0
  /\ pg.flRoundsSinceCluster = 0

\* C14: in a FedAdam round the step counter of flServerAdam equals the
\* number of FedAdam rounds performed in a row since the algorithm was
\* selected or the page reset, and from the second such round on the
\* optimizer stepped is the one the round before left, moments included;
\* and a round that finds an optimizer and leaves none is a round in which
\* the algorithm selection changed
C14_ServerAdamReused ==
  /\ (round.path = "single" /\ cfg.algo = "FedAdam" /\ ~round.raised)
       => /\ pg.flServerAdam # NULL
          /\ pg.flServerAdam[1].t = round.adamRounds
          /\ (round.adamRounds > 1)
               => (/\ round.adamStepped = round.prevAdam
                   /\ round.adamStepped[1].m # NULL
                   /\ round.adamStepped[1].v # NULL)
  /\ (/\ round.path \in {"single", "clustered"}
      /\ round.prevAdam # NULL
      /\ pg.flServerAdam = NULL)
       => round.prevAlgo # cfg.algo

\* the second FedAdam round in a row, stepping the optimizer of the first
C14_Witness ==
  /\ round.path = "single" /\ cfg.algo = "FedAdam" /\ ~round.raised
  /\ round.adamRounds = 2
  /\ round.prevAdam # NULL /\ round.prevAdam[1].t = 1
  /\ pg.flServerAdam[1].t = 2

\* the control variate the SCAFFOLD initialisation must leave in place of
\* before: before itself when it exists with len elements, zeros otherwise
ExpectedVariate(before, len) ==
  IF before # NULL /\ Len(before[1]) = len THEN before ELSE Some(ZeroArray(len))

\* C15: when local training starts in a SCAFFOLD round, flScaffoldC and one
\* flScaffoldCi per client exist with as many elements as the flattened
\* weights, each the vector held before if it had that length and zeros
\* otherwise; and every flScaffoldCi is zero when the clients were
\* repartitioned since the last SCAFFOLD round
C15_ControlVariatesReady ==
  round.path = "single" /\ cfg.algo = "SCAFFOLD"
    => LET len == Len(round.startWeights[0][1])
           before == round.scaffoldBefore
           start == round.scaffoldStart
       IN  /\ start.c = ExpectedVariate(before.c, len)
           /\ DOMAIN start.ci = 0..(round.population - 1)
           /\ \A i \in DOMAIN start.ci :
                /\ start.ci[i] # NULL /\ Len(start.ci[i][1]) = len
                /\ start.ci[i] =
                     ExpectedVariate(IF DOMAIN before.ci = DOMAIN start.ci
                                     THEN before.ci[i] ELSE NULL, len)
                /\ round.repartitioned => start.ci[i] = Some(ZeroArray(len))

\* a SCAFFOLD round that follows a SCAFFOLD round and a reset of the page in
\* between (the clients were rebuilt, the algorithm did not change): every
\* control variate is zero at the start, and training leaves one that is not
C15_Witness ==
  /\ round.path = "single" /\ cfg.algo = "SCAFFOLD"
  /\ round.rebuilt /\ round.prevAlgo = "SCAFFOLD"
  /\ \A i \in DOMAIN round.scaffoldStart.ci :
       round.scaffoldStart.ci[i] = Some(ZeroArray(Len(round.startWeights[0][1])))
  /\ \E i \in DOMAIN pg.flScaffoldCi :
       pg.flScaffoldCi[i] # Some(ZeroArray(Len(round.startWeights[0][1])))

\* what the client of log entry e trained: its weights after minus its base
RawDelta(e) ==
  [li \in 1..Len(e.after) |->
     [i \in 1..Len(e.after[li]) |-> RSub(e.after[li][i], e.base[li][i])]]

\* no delta of the round was clipped or noised
ClientDeltasUntouched ==
  \A i \in 1..Len(round.log) : round.log[i].delta = RawDelta(round.log[i])

\* no aggregate of the round was clipped or noised: the update applied is
\* the plain aggregate of the deltas pushed
AggregateUntouched ==
  IF round.path = "clustered"
  THEN \A c \in DOMAIN round.endWeights :
         LET deltasC == DeltasOf(BucketFrom(round.log, c, 1))
         IN  Len(deltasC) > 0
               => round.endWeights[c][1] =
                    [i \in 1..Len(round.startWeights[c][1]) |->
                       RAdd(round.startWeights[c][1][i],
                            aggregateDeltas(deltasC, cfg.weightedAggregation)[1][i])]
  ELSE round.agg = Some(aggregateDeltas(DeltasOf(round.log), cfg.weightedAggregation))

\* C16: in a round with dpClientLevel true the aggregate is neither clipped
\* nor noised, in a round with dpClientLevel false no client delta is, and
\* with dpClipNorm <= 0 neither is, whatever dpNoiseMult is
C16_ClientOrServerDP ==
  RoundSeen /\ ~round.raised
    => /\ cfg.dpClientLevel => AggregateUntouched
       /\ ~cfg.dpClientLevel => ClientDeltasUntouched
       /\ ~RGt(cfg.dpClipNorm, Zero) => AggregateUntouched /\ ClientDeltasUntouched

\* a round under client-level DP in which a delta was changed by the
\* sanitizer and the aggregate applied is the plain aggregate
C16_Witness ==
  /\ RoundSeen /\ ~round.raised
  /\ cfg.dpClientLevel /\ RGt(cfg.dpClipNorm, Zero)
  /\ \E i \in 1..Len(round.log) : round.log[i].delta # RawDelta(round.log[i])
  /\ AggregateUntouched

\* the applications of addGaussianNoise with sigma > 0 in the round: one per
\* participating client under client-level DP, one per aggregated update
\* (per cluster with a delta, on the clustered path) under server-level DP
NoiseApplications ==
  IF ~RGt(cfg.dpClipNorm, Zero) \/ ~RGt(Sigma(cfg), Zero) THEN 0
  ELSE IF cfg.dpClientLevel THEN Len(round.log)
  ELSE IF round.path = "clustered"
       THEN Cardinality({c \in DOMAIN round.endWeights :
                           Len(BucketFrom(round.log, c, 1)) > 0})
       ELSE 1

\* C17: a round of oneStepFL leaves flMetrics.dpPrivacyBudget at what it
\* was plus 1/sigma^2 for each application of noise, so no lower than it
\* was and unchanged when no noise was applied
C17_BudgetAccumulates ==
  round.path \in {"single", "clustered"} /\ ~round.raised
    => /\ pg.dpPrivacyBudget =
            (IF NoiseApplications = 0 THEN round.budgetBefore
             ELSE RAdd(round.budgetBefore,
                       RDiv(Num(NoiseApplications), RMul(Sigma(cfg), Sigma(cfg)))))
       /\ RLe(round.budgetBefore, pg.dpPrivacyBudget)

\* a round under client-level DP with two participants, sigma = 1/2, on top
\* of a budget already spent
C17_Witness ==
  /\ round.path = "single" /\ ~round.raised
  /\ cfg.dpClientLevel /\ Len(round.log) = 2 /\ Sigma(cfg) = Q(1, 2)
  /\ RGt(round.budgetBefore, Zero)
  /\ pg.dpPrivacyBudget = RAdd(round.budgetBefore, Num(8))

\* C18: for a finite clip > 0 the sum of squares of clipUpdate(d, clip) is
\* at most clip^2, the result is d when the norm of d is at most clip, and
\* clipping the result again gives the result; for any other clip the
\* result is d; and d is after the call what it was before
C18_ClipUpdate ==
  program = "clipUpdate" /\ result.done
    => LET d == result.given
           c == call.clip
           out == result.value
       IN  /\ (IsFinite(c) /\ RGt(c, Zero))
                => /\ RLe(SumSqGroups(out, 1), RMul(c, c))
                   /\ RLe(SumSqGroups(d, 1), RMul(c, c)) => out = d
                   /\ clipUpdate(out, c) = out
           /\ ~(IsFinite(c) /\ RGt(c, Zero)) => out = d
           /\ call.delta = d

\* an update of norm 5 clipped to 2: scaled by 2/5, exactly onto the bound
C18_Witness ==
  /\ program = "clipUpdate" /\ result.done
  /\ result.given = <<<<Num(3), Num(4)>>>> /\ call.clip = Num(2)
  /\ result.value = <<<<Q(6, 5), Q(8, 5)>>>>
  /\ SumSqGroups(result.value, 1) = Num(4)

\* C19: aggregateDeltas called with a batch of one (delta, weight) pair
\* returns delta, element by element, weighted or not, for every weight a
\* client carries (its number of examples, 0 included)
C19_SingletonBatch ==
  program = "aggregateDeltas" /\ result.done /\ Len(call.deltas) = 1
    => ~result.raised /\ result.value = call.deltas[1].delta

\* C20: kMeans called with N >= 1 vectors and K >= 1, K > N included,
\* returns without raising, with min(K, N) centroids and every assignment
\* in [0, min(K, N)), and each of its initial centroids is equal to one of
\* the vectors given
C20_KMeansClampsK ==
  program = "kMeans" /\ result.done
    => LET N == ALen(call.vectors)
           k == Min2(call.K, N)
       IN  /\ ~result.raised
           /\ ALen(result.value.centroids) = k
           /\ \A i \in DOMAIN result.value.assignments :
                result.value.assignments[i] \in 0..(k - 1)
           /\ \A c \in DOMAIN result.initial :
                \E i \in DOMAIN call.vectors : result.initial[c] = call.vectors[i]

\* the call of kMeans returned from its main loop
LoopReturned ==
  /\ program = "kMeans" /\ result.done /\ ~result.raised
  /\ ~(call.definition = "first" /\ call.K <= 1)

\* C21: the main loop of kMeans runs at most maxIters assign-then-update
\* iterations, each beginning with what the one before left; an iteration
\* whose assign step changes no assignment is the last, and the loop ends
\* short of maxIters only after such an iteration; a cluster without a
\* point after an assign step keeps its centroid in the update step
C21_LloydTerminates ==
  LoopReturned
    => LET steps == result.value.steps
           quiet(i) == steps[i].assigned = steps[i].before
       IN  /\ Len(steps) <= call.maxIters
           /\ \A i \in 1..Len(steps) : quiet(i) => i = Len(steps)
           /\ Len(steps) < call.maxIters => Len(steps) > 0 /\ quiet(Len(steps))
           /\ \A i \in 1..(Len(steps) - 1) :
                /\ steps[i + 1].before = steps[i].assigned
                /\ steps[i + 1].centroids = steps[i].updated
           /\ \A i \in 1..Len(steps) : \A c \in DOMAIN steps[i].centroids :
                (\A p \in DOMAIN steps[i].assigned : steps[i].assigned[p] # c)
                  => steps[i].updated[c] = steps[i].centroids[c]

\* a call that needs a second iteration to see no change, in which a
\* cluster is left without a point and keeps its centroid
C21_Witness ==
  /\ LoopReturned
  /\ Len(result.value.steps) = 2 /\ call.maxIters = 20
  /\ \E c \in DOMAIN result.value.centroids :
       /\ \A p \in DOMAIN result.value.assignments : result.value.assignments[p] # c
       /\ result.value.centroids[c] = result.initial[c]

\* kMeans was called with the four points of TwoGroups, in some order
TwoGroupsCall ==
  /\ program = "kMeans" /\ result.done
  /\ call.K = 2 /\ call.metric = "l2"
  /\ {call.vectors[i] : i \in DOMAIN call.vectors}
       = {TwoGroups[i] : i \in 1..Len(TwoGroups)}

\* C22: on the two groups {(0,0),(0,1)} and {(5,5),(5,6)}, in any order and
\* with any two of them as initial centroids, kMeans with K = 2 under the
\* Euclidean metric puts two points in the same cluster exactly when they
\* are of the same group, and returns the two group means as centroids
C22_TwoGroupsRecovered ==
  TwoGroupsCall
    => /\ ~result.raised
       /\ \A i, j \in DOMAIN call.vectors :
            (result.value.assignments[i] = result.value.assignments[j])
              <=> (call.vectors[i][1] = call.vectors[j][1])
       /\ {result.value.centroids[c] : c \in DOMAIN result.value.centroids}
            = {<<Zero, Q(1, 2)>>, <<Num(5), Q(11, 2)>>}

\* a call that starts from two centroids of the same group and still ends
\* with the two group means
C22_Witness ==
  /\ TwoGroupsCall /\ ~result.raised
  /\ result.initial[0][1] = result.initial[1][1]
  /\ Len(result.value.steps) = 3
  /\ {result.value.centroids[c] : c \in DOMAIN result.value.centroids}
       = {<<Zero, Q(1, 2)>>, <<Num(5), Q(11, 2)>>}

\* a round of simulateFederatedTraining ran to its end
SimRoundDone == program = "train" /\ round.path = "sim" /\ ~round.raised

\* the positions of an event in the round's sequence of callbacks
EventAt(name) == {i \in 1..Len(round.events) : round.events[i] = name}

StepDone == program = "rebuild" /\ result.done

\* C24: the step rebuilt the clients exactly when there were none (after a
\* reset or a regeneration of the data) or the seed, client count, batch
\* size, alpha or problem is not what the last build was made with;
\* otherwise the round ran on the client records that were there, and in
\* both cases the round left the records it ran on as they were
C24_RebuildOnlyOnChange ==
  StepDone
    => /\ result.rebuilt
            <=> \/ result.before = NULL
                \/ result.builtWith = NULL
                \/ result.builtWith[1] # result.settings
       /\ ~result.rebuilt => result.atRound = result.before
       /\ pg.flClients = result.atRound
       /\ pg.flClients # NULL

\* a second round on the same page reuses the clients of the first
C24_Witness ==
  /\ StepDone /\ ~result.rebuilt /\ pg.iter = 2
  /\ ALen(pg.flClients[1]) = MaxClients

\* a change of alpha alone makes the next step rebuild clients that exist
C24_WitnessRebuilt ==
  /\ StepDone /\ result.rebuilt /\ result.before # NULL
  /\ result.builtWith # NULL /\ result.settings[4] # result.builtWith[1][4]
  /\ \A i \in {1, 2, 3, 5} : result.settings[i] = result.builtWith[1][i]

\* a call of makeClientsFromXY with a seed has returned
SeededReturned == program = "seeded" /\ result.done /\ result.seed # NULL

\* C25: a call of makeClientsFromXY with a seed returns the client records
\* that the first call with the same arguments and that seed returned,
\* whatever calls with other seeds, without a seed (drawing from
\* Math.random) or of sampleDirichlet came in between
C25_SeededDeterministic ==
  SeededReturned => result.value = result.first[result.seed[1]][1]

\* the third call repeats the seed of an earlier one, after the sampler was
\* left in a state that is not the one a seeded call starts from
C25_Witness ==
  /\ SeededReturned /\ result.calls = MaxCalls
  /\ \E seed \in PartSeeds \ {result.seed[1]} : result.first[seed] # NULL
  /\ ALen(result.value) = MaxClients

\* the loop of kMeans ended before it had made maxIters iterations
ReturnedEarly == LoopReturned /\ Len(result.value.steps) < call.maxIters

\* C26: when kMeans returns before maxIters iterations, every vector is
\* assigned to the centroid, among those returned, that the assign step
\* would pick for it: a nearest one under the metric, the lowest index
\* among ties
C26_ReturnedAssignmentsNearest ==
  ReturnedEarly
    => \A i \in DOMAIN call.vectors :
         result.value.assignments[i]
           = BestFrom(PreparedData(call.vectors, call.metric)[i],
                      result.value.centroids, call.metric, 0, 0, PosInf)

\* the batches of a client, joined in order
RECURSIVE JoinBatches(_, _)
JoinBatches(batches, b) ==
  IF b > Len(batches) THEN <<>> ELSE batches[b] \o JoinBatches(batches, b + 1)

\* C27: the index lists makeClientsFromXY gives to the clients partition the
\* source examples: no index twice in one client or in two clients, every
\* index in some client, the sizes are the lengths of the lists and sum to
\* the number of examples, and a client's batches are its list cut into
\* runs of batchSize, the last one possibly shorter but not empty
C27_ExactPartition ==
  (program = "makeClientsFromXY" /\ result.done) =>
    LET cl == result.value
        n == call.numClients
        total == Len(call.y)
        held(c) == {cl[c].idxs[k] : k \in 1..Len(cl[c].idxs)}
    IN  /\ \A c \in 0..(n - 1) :
             /\ Cardinality(held(c)) = Len(cl[c].idxs)
             /\ cl[c].size = Len(cl[c].idxs)
             /\ JoinBatches(cl[c].batches, 1) = cl[c].idxs
             /\ \A b \in 1..Len(cl[c].batches) :
                  /\ Len(cl[c].batches[b]) >= 1
                  /\ Len(cl[c].batches[b]) <= call.batchSize
                  /\ b < Len(cl[c].batches) => Len(cl[c].batches[b]) = call.batchSize
        /\ \A c, d \in 0..(n - 1) : c # d => held(c) \cap held(d) = {}
        /\ UNION {held(c) : c \in 0..(n - 1)} = 0..(total - 1)
        /\ SumSeq([i \in 1..n |-> cl[i - 1].size], 1) = total

\* three examples over two clients in batches of one: a client holds two
\* examples in two batches, the other the third
C27_Witness ==
  /\ program = "makeClientsFromXY" /\ result.done
  /\ Len(call.y) = 3 /\ call.numClients = 2 /\ call.batchSize = 1
  /\ call.balance = Zero
  /\ \E c \in 0..1 : Len(result.value[c].batches) = 2 /\ result.value[1 - c].size = 1

\* C28: in seededShuffle every draw is below 1 (the word drawn is below
\* 0xffffffff, by which it is divided), every swap index j is within 0..i,
\* and the array is left a permutation of 0..N-1
C28_ShuffleIsPermutation ==
  (program = "seededShuffle" /\ result.done) =>
    /\ \A d \in 1..Len(result.draws) :
         /\ result.draws[d].word # <<Half - 1, Half - 1>>
         /\ result.draws[d].j >= 0 /\ result.draws[d].j <= result.draws[d].i
    /\ DOMAIN result.value = DOMAIN call.arr
    /\ {result.value[i] : i \in DOMAIN result.value} = DOMAIN call.arr

\* a clustered round ran to its end
ClusteredRoundDone == program = "playground" /\ round.path = "clustered" /\ ~round.raised

\* n_c / n: the share of the clients that the round's end finds in cluster c
SizeShare(c) ==
  Q(Cardinality({i \in DOMAIN round.assignBefore : round.assignBefore[i] = c}),
    ALen(round.assignBefore))

\* the sum over the clusters c, c + 1, ... of SizeShare(c) * w_c
RECURSIVE SizeWeightedFrom(_, _)
SizeWeightedFrom(c, out) ==
  IF c >= ALen(round.weightsAtView[1]) THEN out
  ELSE SizeWeightedFrom(c + 1,
         [i \in 1..Len(out) |->
            RAdd(out[i], RMul(SizeShare(c), round.weightsAtView[1][c][i]))])

\* C29: after a clustered round the model put on display is the sum over
\* the clusters of (n_c / n) * w_c, with n_c the number of clients assigned
\* to cluster c; the shares are not negative and sum to 1; and the cluster
\* weights are the same before and after the average is taken
C29_ViewIsSizeWeighted ==
  ClusteredRoundDone
    => /\ round.view
            = SizeWeightedFrom(0, ZeroArray(Len(round.weightsAtView[1][0])))
       /\ \A c \in DOMAIN round.weightsAtView[1] : RLe(Zero, SizeShare(c))
       /\ SumSeq([c \in 1..ALen(round.weightsAtView[1]) |->
                    Cardinality({i \in DOMAIN round.assignBefore :
                                   round.assignBefore[i] = c - 1})], 1)
            = ALen(round.assignBefore)
       /\ round.weightsAfterView = round.weightsAtView

\* the timers whose next tick would call oneStep
Driving == {t \in Started(pg) : pg.timers[t].running /\ ~TimerDone(pg, t)}

\* C30: at most one timer of the Player drives oneStep: no tick of a timer
\* started before the last pause() or play() calls oneStep, and at most one
\* running timer is still to call it
C30_OneTimerLoop ==
  program = "player"
    => /\ result.stepped => result.by \notin result.stale
       /\ Cardinality(Driving) <= 1
       /\ Driving \cap result.stale = {}

\* the third timer steps while the first two, started by earlier calls of
\* play, are still held by d3
C30_Witness ==
  /\ program = "player" /\ result.stepped /\ result.by = MaxTimers
  /\ \A t \in 1..(MaxTimers - 1) : pg.timers[t].running

====
